---- MODULE Spec2Model ----
(***************************************************************************)
(* A model of icad_tr_mqtt_consumer: the worker pool that the broker       *)
(* callback feeds (lib/mqtt_handler.py, lib/threadpool_handler.py) and the *)
(* per-call pipeline process_mqtt_call (lib/call_processor.py) with its    *)
(* shared duplicate-detection history.                                     *)
(*                                                                         *)
(* Python threads are switched between bytecodes.  The model switches them  *)
(* between the statements of process_mqtt_call, and inside the statement   *)
(* of line 96 between the slice that is read and the store that replaces   *)
(* the window; a thread that has left the duplicate detection is run to    *)
(* its return.  Every behaviour of the model is a behaviour of the program.*)
(* Dicts and lists are heap objects with an identity, so that a store may  *)
(* replace an object that another thread has already written to.           *)
(***************************************************************************)
EXTENDS Integers, Sequences, FiniteSets, TLC

\* ------------------------------------------------------------------ bounds

\* Worker threads of the pool (the program's default is 32).
NumWorkers == 2
\* Latest start_time (in ticks) of a call in the feed.
MaxStart == 2

\* ------------------------------------------------------- program constants

\* call_processor.py:95-96, the length a window is truncated to.
HistoryLimit == 15

\* ------------------------------------------------------------ small helpers

Range(s) == {s[i] : i \in DOMAIN s}

Last(s, n) == IF Len(s) <= n THEN s ELSE SubSeq(s, Len(s) - n + 1, Len(s))

\* Python's None, where a worker holds no reference.
None == <<>>

\* f with key k set to v (a dict store).
Put(f, k, v) == (k :> v) @@ f


\* ----------------------------------------------------------- configuration
\* The configuration file the model runs with (config_handler.py:7-177 gives
\* its shape).  An allowed_talkgroups list is a record: star says whether the
\* list holds "*", tgs holds its integers.  Times are integers (ticks).

Allow(star, tgs) == [star |-> star, tgs |-> tgs]

systems ==
  [sys1 |->
     [duplicate_transmission_detection |->
        [enabled |-> 1, start_difference_threshold |-> 1, length_threshold |-> 1,
         check_same_instance |-> FALSE, simulcast_talkgroups |-> <<1, 2>>],
      audio_compression |-> [m4a_audio_compression |-> [enabled |-> TRUE]],
      icad_tone_detect_legacy |-> <<[enabled |-> 1], [enabled |-> 0]>>,
      tone_detection |-> [enabled |-> 1, allowed_talkgroups |-> Allow(FALSE, {1, 3})],
      transcribe |-> [enabled |-> 1, allowed_talkgroups |-> Allow(FALSE, {1, 3})],
      archive |-> [enabled |-> 1],
      openmhz |-> [enabled |-> 1],
      broadcastify_calls |-> [enabled |-> 1],
      icad_player |-> [enabled |-> 1, allowed_talkgroups |-> Allow(TRUE, {})],
      rdio_systems |-> <<[enabled |-> 1], [enabled |-> 0], [enabled |-> 1]>>,
      trunk_player_systems |-> <<[enabled |-> 1]>>,
      icad_cloud_detect |-> <<[enabled |-> 1, allowed_talkgroups |-> Allow(FALSE, {1, 3})],
                              [enabled |-> 1, allowed_talkgroups |-> Allow(TRUE, {})]>>,
      icad_alerting |-> [enabled |-> 1, allowed_talkgroups |-> Allow(FALSE, {1, 3})],
      webhooks |-> <<[enabled |-> 1, allowed_talkgroups |-> Allow(TRUE, {})],
                     [enabled |-> 1, allowed_talkgroups |-> Allow(FALSE, {})]>>],
   sys2 |->
     [duplicate_transmission_detection |->
        [enabled |-> 1, start_difference_threshold |-> 1, length_threshold |-> 0,
         check_same_instance |-> TRUE, simulcast_talkgroups |-> <<>>],
      audio_compression |-> [m4a_audio_compression |-> [enabled |-> FALSE]],
      icad_tone_detect_legacy |-> <<>>,
      tone_detection |-> [enabled |-> 0, allowed_talkgroups |-> Allow(FALSE, {})],
      transcribe |-> [enabled |-> 0, allowed_talkgroups |-> Allow(FALSE, {})],
      archive |-> [enabled |-> 0],
      openmhz |-> [enabled |-> 1],
      broadcastify_calls |-> [enabled |-> 0],
      icad_player |-> [enabled |-> 0, allowed_talkgroups |-> Allow(FALSE, {})],
      rdio_systems |-> <<>>,
      trunk_player_systems |-> <<>>,
      icad_cloud_detect |-> <<>>,
      icad_alerting |-> [enabled |-> 0, allowed_talkgroups |-> Allow(FALSE, {})],
      webhooks |-> <<>>],
   sys3 |->
     [duplicate_transmission_detection |->
        [enabled |-> 0, start_difference_threshold |-> 1, length_threshold |-> 1,
         check_same_instance |-> FALSE, simulcast_talkgroups |-> <<>>],
      audio_compression |-> [m4a_audio_compression |-> [enabled |-> FALSE]],
      icad_tone_detect_legacy |-> <<>>,
      tone_detection |-> [enabled |-> 0, allowed_talkgroups |-> Allow(FALSE, {})],
      transcribe |-> [enabled |-> 0, allowed_talkgroups |-> Allow(FALSE, {})],
      archive |-> [enabled |-> 0],
      openmhz |-> [enabled |-> 0],
      broadcastify_calls |-> [enabled |-> 0],
      icad_player |-> [enabled |-> 0, allowed_talkgroups |-> Allow(FALSE, {})],
      rdio_systems |-> <<>>,
      trunk_player_systems |-> <<>>,
      icad_cloud_detect |-> <<>>,
      icad_alerting |-> [enabled |-> 0, allowed_talkgroups |-> Allow(FALSE, {})],
      webhooks |-> <<>>]]

SystemNames == DOMAIN systems
Talkgroups == {1, 2, 3}

\* ---------------------------------------------------------------- the feed
\* A message of topic feeds/audio: the metadata fields the pipeline reads,
\* and env, what the outside world will answer while this call is processed:
\*   temp    "ok" | "wav_fail" | "json_fail"  (the scratch writes)
\*   m4a     whether the encoder succeeds
\*   arch    the extensions the archive backend returns a URL for
\*   fails   the sink requests that come back as an error result
\*   raises  the sink requests that raise an exception in the adapter

EnvOK ==
  [temp |-> "ok", m4a |-> TRUE, arch |-> {"wav", "m4a", "json"},
   fails |-> {}, raises |-> {}]

\* msg.topic is the sequence of its levels; the producer publishes below
\* TopicBase ("trunk_recorder" in mqtt_handler.py:50 and in the default
\* configuration).
TopicBase == <<"trunk_recorder">>

Call(sn, tg, st, len, inst, file, env) ==
  [topic |-> TopicBase \o <<"feeds", "audio">>, rates |-> 0,
   short_name |-> sn, talkgroup |-> tg, start_time |-> st, call_length |-> len,
   instance_id |-> inst, filename |-> file, env |-> env]

\* A message of another topic: its instance_id and, for feeds/rates, the
\* number of systems in its "rates" list.
Stat(topic, inst, rates) ==
  [Call("", 0, 0, 0, inst, "", EnvOK) EXCEPT !.topic = topic, !.rates = rates]

\* The calls already in the history of a system that has been running: each
\* was accepted long ago, one at a time.
WarmLen == HistoryLimit - 1
OldCall(i) == Call("old", 1, 0 - 100 * i, 5, "old", "old.wav", EnvOK)
WarmWindow == [i \in 1..WarmLen |-> i - WarmLen - 1]

VARIABLES
  feed,              \* the messages the broker delivers, in order
  cursor,            \* how many of them on_message has seen
  es,                \* MQTTClient.es: TRUE iff an index client exists
  max_workers,       \* the pool's size
  queue,             \* the executor's work queue (call ids)
  pending_tasks,     \* TrackingThreadPoolExecutor._pending_tasks
  running_tasks,     \* TrackingThreadPoolExecutor._running_tasks
  pc,                \* per worker: where its thread stands
  task,              \* per worker: the call it processes (0: none)
  loc,               \* per worker: the locals of process_mqtt_call
  message_history,   \* call_processor.message_history: short_name -> dict
  dicts,             \* heap: dict -> (talkgroup -> list)
  lists,             \* heap: list -> sequence of call ids
  verdict,           \* per call: the outcome of guard and duplicate check
  ended,             \* per call: how process_mqtt_call was left
  trace,             \* per call: the stages that ran, in order
  call_data,         \* per call: the enrichment slots of the CallRecord
  scratch,           \* the files of the scratch directory
  indexed,           \* the documents handed to the index client
  dup_from,          \* per call: the talkgroup line 79-80 logs a match from
  appended,          \* per (system, talkgroup): the calls appended, in order
  mqtt,              \* MQTTClient.topic, .stats_enable and .unit_log_type
  routed,            \* per message: what process_message did with it
  error_flag,        \* MQTTClient.error_flag (a threading.Event)
  connection,        \* the broker connection, as the callbacks learnt of it
  subscription,      \* the subscription, as on_subscribe learnt of it
  loop_thread,       \* the client's network loop thread, which runs the callbacks
  shutdown,          \* TRUE once executor.shutdown has been called
  main,              \* where the main thread of mqtt_consumer.py stands
  reports,           \* the queue-depth reports on_message has logged
  fn_in,             \* a function taken alone: its arguments and what it acts on
  fn_out             \* a function taken alone: its result

vars ==
  <<feed, cursor, es, max_workers, queue, pending_tasks, running_tasks, pc, task,
    loc, message_history, dicts, lists, verdict, ended, trace, call_data, scratch,
    indexed, dup_from, appended, mqtt, routed, error_flag, connection,
    subscription, loop_thread, shutdown, main, reports, fn_in, fn_out>>

\* The state of the client's life cycle.
life == <<error_flag, connection, subscription, loop_thread, shutdown, main>>

Workers == 1..NumWorkers
CallIds == 1..Len(feed)

\* The CallRecord of a call id: a message of the feed, or an old call.
Rec(id) == IF id > 0 THEN feed[id] ELSE OldCall(0 - id)

DictRef(creator) == <<"dict", creator>>
ListRef(creator, tg, kind) == <<"list", creator, tg, kind>>

Locals0 ==
  [k |-> 1, tmp |-> <<>>, j |-> 1, m4a_exists |-> FALSE]

CallData0 ==
  [tones |-> "unset", transcript |-> "unset", play_length |-> "unset",
   audio_m4a_url |-> "", audio_wav_url |-> "", audio_url |-> ""]

\* message_history = {} (call_processor.py:24), a process just started.
ColdHistory ==
  [mh |-> <<>>, dicts |-> <<>>, lists |-> <<>>,
   appended |-> [sn \in SystemNames |-> [tg \in Talkgroups |-> <<>>]]]

\* The history of a process in which WarmLen old calls have been accepted on
\* the simulcast talkgroups of sys1 and as many on talkgroup 1 of sys2.
WarmHistory ==
  [mh |-> [sn \in {"sys1", "sys2"} |-> DictRef(IF sn = "sys1" THEN 0 - 1 ELSE 0 - 2)],
   dicts |-> (DictRef(0 - 1) :> [tg \in {1, 2} |-> ListRef(0 - 1, tg, "new")])
             @@ (DictRef(0 - 2) :> [tg \in {1} |-> ListRef(0 - 2, tg, "new")]),
   lists |-> (ListRef(0 - 1, 1, "new") :> WarmWindow)
             @@ (ListRef(0 - 1, 2, "new") :> WarmWindow)
             @@ (ListRef(0 - 2, 1, "new") :> WarmWindow),
   appended |-> [sn \in SystemNames |-> [tg \in Talkgroups |->
                   IF (sn = "sys1" /\ tg \in {1, 2}) \/ (sn = "sys2" /\ tg = 1)
                   THEN WarmWindow ELSE <<>>]]]

InitWith(feeds, pool, histories, clients) ==
  /\ feed \in feeds
  /\ cursor = 0
  /\ es \in clients
  /\ max_workers = pool
  /\ queue = <<>>
  /\ pending_tasks = 0
  /\ running_tasks = 0
  /\ pc = [w \in Workers |-> "idle"]
  /\ task = [w \in Workers |-> 0]
  /\ loc = [w \in Workers |-> Locals0]
  /\ \E h \in histories :
       /\ message_history = h.mh
       /\ dicts = h.dicts
       /\ lists = h.lists
       /\ appended = h.appended
  /\ verdict = [c \in CallIds |-> "none"]
  /\ ended = [c \in CallIds |-> "no"]
  /\ trace = [c \in CallIds |-> <<>>]
  /\ call_data = [c \in CallIds |-> CallData0]
  /\ scratch = <<>>
  /\ indexed = {}
  /\ dup_from = [c \in CallIds |-> 0]
  /\ routed = [c \in CallIds |-> "none"]
  /\ fn_out = [done |-> FALSE, value |-> FALSE]

\* The consumer at work: connected and subscribed, the network loop
\* running, the main thread asleep in its loop (mqtt_consumer.py:46-47).
AtWork ==
  /\ error_flag = FALSE
  /\ connection = "accepted"
  /\ subscription = "granted"
  /\ loop_thread = "running"
  /\ shutdown = FALSE
  /\ main = "sleep"
  /\ reports = <<>>

\* ----------------------------------------------------------- the worker pool

\* MQTTClient.on_message with TrackingThreadPoolExecutor.submit, run by the
\* network loop thread: the message is counted as pending (line 13 of
\* threadpool_handler.py) and queued for the pool (line 25, which raises
\* once the executor is shut down).  Line 105 then calls
\* executor.get_running_threads, which TrackingThreadPoolExecutor does not
\* define: the AttributeError leaves on_message, and the report of lines
\* 107-113 is never made.  What the client library does with the exception
\* is not in the source; the model lets its loop go on.
on_message ==
  /\ loop_thread = "running"
  /\ subscription = "granted"
  /\ cursor < Len(feed)
  /\ cursor' = cursor + 1
  /\ pending_tasks' = pending_tasks + 1
  /\ queue' = IF shutdown THEN queue ELSE Append(queue, cursor + 1)
  /\ reports' = reports
  /\ UNCHANGED <<feed, es, max_workers, running_tasks, pc, task, loc,
                 message_history, dicts, lists, verdict, ended, trace, call_data,
                 scratch, indexed, dup_from, appended, mqtt, routed, life, fn_in, fn_out>>

\* elasticsearch_handler.py:226-246: the document is posted to the index the
\* type names; an unknown type is logged and dropped.
index_document(index_type, document) ==
  IF index_type \in {"icad-transmissions", "icad-recorders", "icad-rates", "icad-duplicates"}
  THEN indexed \cup {<<index_type, document>>}
  ELSE indexed

\* mqtt_handler.py:135: self.topic.split("#")[0], the subscription up to
\* its first wildcard level, all of it when it has none.
topic_base ==
  LET hashes == {i \in DOMAIN mqtt.topic : mqtt.topic[i] = "#"}
  IN  IF hashes = {} THEN mqtt.topic
      ELSE SubSeq(mqtt.topic, 1, (CHOOSE i \in hashes : \A k \in hashes : i <= k) - 1)

\* mqtt_handler.py:136: msg.topic[len(topic_base):], the topic of the message
\* with as much cut off its front as topic_base is long.
topic_suffix(topic) == SubSeq(topic, Len(topic_base) + 1, Len(topic))

\* mqtt_handler.py:224: the last level of the topic.
unit_topic(topic) == topic[Len(topic)]

\* The documents process_message hands to the index client for message c
\* when statistics are enabled (lines 174-278): one for each system of a
\* feeds/rates message, one for a feeds/recorders message, one for a
\* units/call or units/end message that unit_log_type selects; nothing for
\* status/calls_active, feeds/call_end and any other topic.  A document is
\* the pair of its index type and the message it was built from.
StatDocuments(c) ==
  LET suffix == topic_suffix(feed[c].topic)
  IN  IF suffix = <<"feeds", "rates">>
      THEN {<<"icad-rates", c>> : i \in 1..feed[c].rates}
      ELSE IF suffix = <<"status", "calls_active">> THEN {}
      ELSE IF suffix = <<"feeds", "call_end">> THEN {}
      ELSE IF suffix = <<"feeds", "recorders">> THEN {<<"icad-recorders", c>>}
      ELSE IF suffix # <<>> /\ suffix[1] = "units"
      THEN IF unit_topic(feed[c].topic) \in {"call", "end"}
              /\ mqtt.unit_log_type = unit_topic(feed[c].topic)
           THEN {<<"icad-units", c>>}
           ELSE {}
      ELSE {}

\* process_message with the sentinel test made for feeds/audio only.
process_message_sentinel_on_audio(w, c) ==
  LET suffix == topic_suffix(feed[c].topic)
      to(label, how) == /\ pc' = [pc EXCEPT ![w] = label]
                        /\ routed' = [routed EXCEPT ![c] = how]
  IN  IF suffix = <<"feeds", "audio">>
      THEN IF feed[c].instance_id = "trunk-recorder"
           THEN to("done", "rejected") /\ indexed' = indexed
           ELSE to("guard", "pipeline") /\ indexed' = indexed
      ELSE IF ~mqtt.stats_enable
      THEN to("done", "stats_off") /\ indexed' = indexed
      ELSE /\ to("done", "stats")
           /\ indexed' = IF es THEN UNION {index_document(d[1], d[2]) : d \in StatDocuments(c)}
                                     \cup indexed
                          ELSE indexed

\* MQTTClient.process_message (mqtt_handler.py:121-282) up to the call of
\* process_mqtt_call or, for any other message, up to its return: a message
\* of the sentinel instance is rejected; a feeds/audio message goes to the
\* call pipeline; any other message is dropped when statistics are
\* disabled, and its documents are indexed when they are enabled.
process_message(w, c) ==
  LET suffix == topic_suffix(feed[c].topic)
      to(label, how) == /\ pc' = [pc EXCEPT ![w] = label]
                        /\ routed' = [routed EXCEPT ![c] = how]
  IN  IF feed[c].instance_id = "trunk-recorder"
      THEN to("done", "rejected") /\ indexed' = indexed
      ELSE IF suffix = <<"feeds", "audio">>
      THEN to("guard", "pipeline") /\ indexed' = indexed
      ELSE IF ~mqtt.stats_enable
      THEN to("done", "stats_off") /\ indexed' = indexed
      ELSE /\ to("done", "stats")
           /\ indexed' = IF es THEN UNION {index_document(d[1], d[2]) : d \in StatDocuments(c)}
                                     \cup indexed
                          ELSE indexed

\* wrapper_fn up to the call of fn, and fn, which is process_message: an
\* idle thread of the pool takes the oldest queued task.  The threads are
\* alike: the idle thread that takes the task is the first of them.
wrapper_start(w) ==
  /\ w <= max_workers
  /\ pc[w] = "idle"
  /\ \A v \in 1..(w - 1) : pc[v] # "idle"
  /\ queue # <<>>
  /\ task' = [task EXCEPT ![w] = Head(queue)]
  /\ queue' = Tail(queue)
  /\ running_tasks' = running_tasks + 1
  /\ process_message(w, Head(queue))
  /\ UNCHANGED <<feed, cursor, es, max_workers, pending_tasks, loc,
                 message_history, dicts, lists, verdict, ended, trace, call_data,
                 scratch, dup_from, appended, mqtt, life, reports, fn_in, fn_out>>

\* wrapper_fn's finally block, after process_message has returned (it
\* swallows whatever process_mqtt_call raised, mqtt_handler.py:280-282).
wrapper_finally(w) ==
  /\ pc[w] = "done"
  /\ running_tasks' = running_tasks - 1
  /\ pending_tasks' = pending_tasks - 1
  /\ pc' = [pc EXCEPT ![w] = "idle"]
  /\ task' = [task EXCEPT ![w] = 0]
  /\ UNCHANGED <<feed, cursor, es, max_workers, queue, loc,
                 message_history, dicts, lists, verdict, ended, trace, call_data,
                 scratch, indexed, dup_from, appended, mqtt, routed, life, reports,
                 fn_in, fn_out>>

\* What no step of process_mqtt_call changes.
PoolUnchanged ==
  UNCHANGED <<feed, cursor, es, max_workers, queue, pending_tasks, running_tasks,
              task, mqtt, routed, life, reports, fn_in, fn_out>>

\* ------------------------------------------------- duplicate detection

\* is_duplicate with the bounds of lines 43-44 taken strictly.
is_duplicate_strict(message1, message2, time_tolerance, length_tolerance, check_same_instance_id) ==
  IF ~check_same_instance_id /\ message1.instance_id = message2.instance_id
  THEN FALSE
  ELSE /\ message1.start_time - time_tolerance < message2.start_time
       /\ message2.start_time < message1.start_time + time_tolerance
       /\ message1.call_length - length_tolerance < message2.call_length
       /\ message2.call_length < message1.call_length + length_tolerance

\* is_duplicate without the test of lines 39-41.
is_duplicate_any_instance(message1, message2, time_tolerance, length_tolerance, check_same_instance_id) ==
  /\ message1.start_time - time_tolerance <= message2.start_time
  /\ message2.start_time <= message1.start_time + time_tolerance
  /\ message1.call_length - length_tolerance <= message2.call_length
  /\ message2.call_length <= message1.call_length + length_tolerance

\* call_processor.py:31-46.
is_duplicate(message1, message2, time_tolerance, length_tolerance, check_same_instance_id) ==
  LET start_time1 == message1.start_time
      start_time2 == message2.start_time
      length1 == message1.call_length
      length2 == message2.call_length
  IN  IF ~check_same_instance_id /\ message1.instance_id = message2.instance_id
      THEN FALSE
      ELSE /\ start_time1 - time_tolerance <= start_time2
           /\ start_time2 <= start_time1 + time_tolerance
           /\ length1 - length_tolerance <= length2
           /\ length2 <= length1 + length_tolerance

DTD(short_name) == systems[short_name].duplicate_transmission_detection

\* relevant_talkgroups without the simulcast list.
own_talkgroup_only(short_name, talkgroup_decimal) == <<talkgroup_decimal>>

\* call_processor.py:66-68.
relevant_talkgroups(short_name, talkgroup_decimal) ==
  IF talkgroup_decimal \in Range(DTD(short_name).simulcast_talkgroups)
  THEN DTD(short_name).simulcast_talkgroups
  ELSE <<talkgroup_decimal>>

\* The talkgroup the loop of worker w stands at.
CurTg(w) ==
  relevant_talkgroups(Rec(task[w]).short_name, Rec(task[w]).talkgroup)[loc[w].k]

LastTg(w) ==
  loc[w].k = Len(relevant_talkgroups(Rec(task[w]).short_name, Rec(task[w]).talkgroup))

\* process_mqtt_call is left: by a return, or by an exception that
\* process_message catches.
Leave(w, how) ==
  /\ pc' = [pc EXCEPT ![w] = "done"]
  /\ ended' = [ended EXCEPT ![task[w]] = how]
  /\ loc' = [loc EXCEPT ![w] = Locals0]

\* The stages after the duplicate detection work on the call's own record,
\* on its own scratch files and on services outside the process.
OwnStages ==
  {"dup_doc", "persist", "transcode", "legacy", "tone_detect", "transcribe",
   "json_rewrite", "archive", "index", "openmhz", "broadcastify_calls", "icad_player",
   "rdio", "trunk_player", "cloud_detect", "alerting", "webhook", "cleanup"}

\* The thread of worker w stands at a statement and is the one that runs.
\* A step of a stage after the duplicate detection commutes with every step
\* of another thread, so a thread that has entered these stages is run to
\* its return before another thread is switched to.
At(w, label) ==
  /\ pc[w] = label
  /\ \A v \in Workers \ {w} : pc[v] \notin OwnStages

\* The guard with the scratch WAV written before the tests of lines 55-62.
GuardAfterPersist(w) ==
  /\ At(w, "guard")
  /\ LET c == task[w]
         short_name == Rec(c).short_name
     IN  /\ trace' = [trace EXCEPT ![c] = Append(@, <<"guard", 0>>)]
         /\ scratch' = Put(scratch, <<Rec(c).filename, "wav">>, c)
         /\ IF short_name = "" \/ short_name \notin DOMAIN systems
            THEN /\ verdict' = [verdict EXCEPT ![c] = "dropped"]
                 /\ Leave(w, "return")
            ELSE /\ ended' = ended
                 /\ loc' = loc
                 /\ IF DTD(short_name).enabled = 1
                    THEN /\ pc' = [pc EXCEPT ![w] = "scan_tg"]
                         /\ verdict' = verdict
                    ELSE /\ pc' = [pc EXCEPT ![w] = "persist"]
                         /\ verdict' = [verdict EXCEPT ![c] = "unchecked"]
  /\ PoolUnchanged
  /\ UNCHANGED <<message_history, dicts, lists, call_data, indexed, dup_from, appended>>

\* call_processor.py:52-64: the guard, and whether duplicate detection is on.
Guard(w) ==
  /\ At(w, "guard")
  /\ LET c == task[w]
         short_name == Rec(c).short_name
     IN  /\ trace' = [trace EXCEPT ![c] = Append(@, <<"guard", 0>>)]
         /\ IF short_name = "" \/ short_name \notin DOMAIN systems
            THEN /\ verdict' = [verdict EXCEPT ![c] = "dropped"]
                 /\ Leave(w, "return")
            ELSE /\ ended' = ended
                 /\ loc' = loc
                 /\ IF DTD(short_name).enabled = 1
                    THEN /\ pc' = [pc EXCEPT ![w] = "scan_tg"]
                         /\ verdict' = verdict
                    ELSE /\ pc' = [pc EXCEPT ![w] = "persist"]
                         /\ verdict' = [verdict EXCEPT ![c] = "unchecked"]
  /\ PoolUnchanged
  /\ UNCHANGED <<message_history, dicts, lists, call_data, scratch, indexed,
                 dup_from, appended>>

\* The window message_history holds for (short_name, tg); None when either
\* key is missing.
Window(short_name, tg) ==
  IF short_name \in DOMAIN message_history
     /\ tg \in DOMAIN dicts[message_history[short_name]]
  THEN dicts[message_history[short_name]][tg]
  ELSE None

\* The scan with a rejected call going on to the windows like a passed one.
ScanTg_appends_rejected(w) ==
  /\ At(w, "scan_tg")
  /\ LET c == task[w]
         short_name == Rec(c).short_name
         d == DTD(short_name)
         tg_history ==
           IF Window(short_name, CurTg(w)) = None THEN <<>>
           ELSE lists[Window(short_name, CurTg(w))]
         duplicate_detected ==
           \E i \in DOMAIN tg_history :
             is_duplicate(Rec(tg_history[i]), Rec(c), d.start_difference_threshold,
                          d.length_threshold, d.check_same_instance)
     IN  IF duplicate_detected
         THEN /\ verdict' = [verdict EXCEPT ![c] = "duplicate"]
              /\ dup_from' = [dup_from EXCEPT ![c] = CurTg(w)]
              /\ trace' = [trace EXCEPT ![c] = Append(@, <<"duplicate_check", 0>>)]
              /\ pc' = [pc EXCEPT ![w] = "ins_sys"]
              /\ loc' = [loc EXCEPT ![w] = Locals0]
         ELSE IF LastTg(w)
         THEN /\ verdict' = [verdict EXCEPT ![c] = "passed"]
              /\ trace' = [trace EXCEPT ![c] = Append(@, <<"duplicate_check", 0>>)]
              /\ pc' = [pc EXCEPT ![w] = "ins_sys"]
              /\ loc' = [loc EXCEPT ![w] = Locals0]
              /\ dup_from' = dup_from
         ELSE /\ loc' = [loc EXCEPT ![w] = [Locals0 EXCEPT !.k = loc[w].k + 1]]
              /\ UNCHANGED <<pc, verdict, trace, dup_from>>
  /\ PoolUnchanged
  /\ UNCHANGED <<message_history, dicts, lists, ended, call_data, scratch, indexed,
                 appended>>

\* Lines 70-84, one round of the loop over relevant_talkgroups: the window of
\* tg is fetched with .get (an empty list when a key is missing) and searched
\* for a call that is_duplicate accepts.
ScanTg(w) ==
  /\ At(w, "scan_tg")
  /\ LET c == task[w]
         short_name == Rec(c).short_name
         d == DTD(short_name)
         tg_history ==
           IF Window(short_name, CurTg(w)) = None THEN <<>>
           ELSE lists[Window(short_name, CurTg(w))]
         duplicate_detected ==
           \E i \in DOMAIN tg_history :
             is_duplicate(Rec(tg_history[i]), Rec(c), d.start_difference_threshold,
                          d.length_threshold, d.check_same_instance)
     IN  IF duplicate_detected
         THEN /\ verdict' = [verdict EXCEPT ![c] = "duplicate"]
              /\ dup_from' = [dup_from EXCEPT ![c] = CurTg(w)]
              /\ trace' = [trace EXCEPT ![c] = Append(@, <<"duplicate_check", 0>>)]
              /\ pc' = [pc EXCEPT ![w] = "dup_doc"]
              /\ loc' = [loc EXCEPT ![w] = Locals0]
         ELSE IF LastTg(w)
         THEN /\ verdict' = [verdict EXCEPT ![c] = "passed"]
              /\ trace' = [trace EXCEPT ![c] = Append(@, <<"duplicate_check", 0>>)]
              /\ pc' = [pc EXCEPT ![w] = "ins_sys"]
              /\ loc' = [loc EXCEPT ![w] = Locals0]
              /\ dup_from' = dup_from
         ELSE /\ loc' = [loc EXCEPT ![w] = [Locals0 EXCEPT !.k = loc[w].k + 1]]
              /\ UNCHANGED <<pc, verdict, trace, dup_from>>
  /\ PoolUnchanged
  /\ UNCHANGED <<message_history, dicts, lists, ended, call_data, scratch, indexed,
                 appended>>

\* Line 87: the test `short_name not in message_history`.
InsSys(w) ==
  /\ At(w, "ins_sys")
  /\ pc' = [pc EXCEPT ![w] =
              IF Rec(task[w]).short_name \notin DOMAIN message_history
              THEN "new_sys" ELSE "tg_in"]
  /\ PoolUnchanged
  /\ UNCHANGED <<loc, message_history, dicts, lists, verdict, ended, trace,
                 call_data, scratch, indexed, dup_from, appended>>

\* Line 88: message_history[short_name] = {}, a new dict, whatever the key
\* holds by now.
NewSys(w) ==
  /\ At(w, "new_sys")
  /\ message_history' = Put(message_history, Rec(task[w]).short_name, DictRef(task[w]))
  /\ dicts' = Put(dicts, DictRef(task[w]), <<>>)
  /\ pc' = [pc EXCEPT ![w] = "tg_in"]
  /\ PoolUnchanged
  /\ UNCHANGED <<loc, lists, verdict, ended, trace, call_data, scratch, indexed,
                 dup_from, appended>>

\* Line 90: the test `tg not in message_history[short_name]`.
TgIn(w) ==
  /\ At(w, "tg_in")
  /\ pc' = [pc EXCEPT ![w] =
              IF Window(Rec(task[w]).short_name, CurTg(w)) = None
              THEN "new_tg" ELSE "app"]
  /\ PoolUnchanged
  /\ UNCHANGED <<loc, message_history, dicts, lists, verdict, ended, trace,
                 call_data, scratch, indexed, dup_from, appended>>

\* Line 91: message_history[short_name][tg] = [], a new list in the dict the
\* system's key holds by now.
NewTg(w) ==
  /\ At(w, "new_tg")
  /\ dicts' = [dicts EXCEPT ![message_history[Rec(task[w]).short_name]] =
                 Put(@, CurTg(w), ListRef(task[w], CurTg(w), "new"))]
  /\ lists' = Put(lists, ListRef(task[w], CurTg(w), "new"), <<>>)
  /\ pc' = [pc EXCEPT ![w] = "app"]
  /\ PoolUnchanged
  /\ UNCHANGED <<loc, message_history, verdict, ended, trace, call_data, scratch,
                 indexed, dup_from, appended>>

\* Line 92: message_history[short_name][tg].append(call_data); a KeyError
\* when the dict the system's key holds by now has no list for tg.
AppendCall(w) ==
  /\ At(w, "app")
  /\ LET short_name == Rec(task[w]).short_name
         x == Window(short_name, CurTg(w))
     IN  IF x = None
         THEN /\ Leave(w, "raise")
              /\ UNCHANGED <<lists, appended>>
         ELSE /\ lists' = [lists EXCEPT ![x] = Append(@, task[w])]
              /\ appended' = [appended EXCEPT ![short_name][CurTg(w)] = Append(@, task[w])]
              /\ pc' = [pc EXCEPT ![w] = "len"]
              /\ UNCHANGED <<loc, ended>>
  /\ PoolUnchanged
  /\ UNCHANGED <<message_history, dicts, verdict, trace, call_data, scratch, indexed,
                 dup_from>>

\* The end of one round of the loop of line 89: the next talkgroup, or the
\* statement after the duplicate detection (line 116; line 98 is false here).
NextRound(w) ==
  /\ pc' = [pc EXCEPT ![w] = IF LastTg(w) THEN "persist" ELSE "tg_in"]
  /\ loc' = [loc EXCEPT ![w] =
               IF LastTg(w) THEN Locals0 ELSE [Locals0 EXCEPT !.k = loc[w].k + 1]]

\* Line 95: the test len(message_history[short_name][tg]) > 15.
LenTest(w) ==
  /\ At(w, "len")
  /\ LET x == Window(Rec(task[w]).short_name, CurTg(w))
     IN  IF x = None
         THEN Leave(w, "raise")
         ELSE /\ ended' = ended
              /\ IF Len(lists[x]) > HistoryLimit
                 THEN /\ pc' = [pc EXCEPT ![w] = "cut_slice"]
                      /\ loc' = loc
                 ELSE NextRound(w)
  /\ PoolUnchanged
  /\ UNCHANGED <<message_history, dicts, lists, verdict, trace, call_data, scratch,
                 indexed, dup_from, appended>>

\* Line 96, right-hand side: the slice [-15:], a new list, is built from the
\* window as it is now.
CutSlice(w) ==
  /\ At(w, "cut_slice")
  /\ LET x == Window(Rec(task[w]).short_name, CurTg(w))
     IN  IF x = None
         THEN Leave(w, "raise")
         ELSE /\ loc' = [loc EXCEPT ![w].tmp = Last(lists[x], HistoryLimit)]
              /\ pc' = [pc EXCEPT ![w] = "cut_store"]
              /\ ended' = ended
  /\ PoolUnchanged
  /\ UNCHANGED <<message_history, dicts, lists, verdict, trace, call_data, scratch,
                 indexed, dup_from, appended>>

\* Line 96, the store of the slice under tg in the dict the system's key
\* holds by now.
CutStore(w) ==
  /\ At(w, "cut_store")
  /\ dicts' = [dicts EXCEPT ![message_history[Rec(task[w]).short_name]] =
                 Put(@, CurTg(w), ListRef(task[w], CurTg(w), "cut"))]
  /\ lists' = Put(lists, ListRef(task[w], CurTg(w), "cut"), loc[w].tmp)
  /\ NextRound(w)
  /\ PoolUnchanged
  /\ UNCHANGED <<message_history, verdict, ended, trace, call_data, scratch,
                 indexed, dup_from, appended>>

\* The duplicate branch without the return of line 114.
DupDocNoReturn(w) ==
  /\ At(w, "dup_doc")
  /\ indexed' = IF es THEN index_document("icad-duplicates", task[w]) ELSE indexed
  /\ pc' = [pc EXCEPT ![w] = "persist"]
  /\ PoolUnchanged
  /\ UNCHANGED <<loc, message_history, dicts, lists, verdict, ended, trace, call_data,
                 scratch, dup_from, appended>>

\* Lines 98-114: the call is a duplicate; a document for the duplicates index
\* when there is an index client, and the return.
DupDoc(w) ==
  /\ At(w, "dup_doc")
  /\ indexed' = IF es THEN index_document("icad-duplicates", task[w]) ELSE indexed
  /\ Leave(w, "return")
  /\ PoolUnchanged
  /\ UNCHANGED <<message_history, dicts, lists, verdict, trace, call_data, scratch,
                 dup_from, appended>>

\* ------------------------------------------------------------- the pipeline

Cfg(w) == systems[Rec(task[w]).short_name]
Env(w) == Rec(task[w]).env

\* call_processor.py:28-29, and the same test written out at lines 156-158,
\* 245-247, 305-307 and 318-319.
talkgroup_is_allowed(talkgroup_decimal, allowed_talkgroups) ==
  allowed_talkgroups.star \/ talkgroup_decimal \in allowed_talkgroups.tgs

Ran(w, stage, n) == trace' = [trace EXCEPT ![task[w]] = Append(@, <<stage, n>>)]

Goto(w, label) == pc' = [pc EXCEPT ![w] = label]

FileThere(name, ext) == <<name, ext>> \in DOMAIN scratch

\* The scratch writes with no test of their result: the pipeline goes on
\* whatever save_temporary_files answered.
PersistGoesOn(w) ==
  /\ At(w, "persist")
  /\ LET c == task[w]
         name == Rec(c).filename
     IN  /\ call_data' = [call_data EXCEPT ![c].tones = "{}", ![c].transcript = "[]"]
         /\ Ran(w, "persist", 0)
         /\ scratch' =
              IF Env(w).temp = "ok" THEN Put(Put(scratch, <<name, "wav">>, c), <<name, "json">>, c)
              ELSE IF Env(w).temp = "json_fail" THEN Put(scratch, <<name, "wav">>, c)
              ELSE scratch
         /\ Goto(w, "transcode")
         /\ UNCHANGED <<ended, loc>>
  /\ PoolUnchanged
  /\ UNCHANGED <<message_history, dicts, lists, verdict, indexed, dup_from, appended>>

\* Lines 116-123 with audio_file_handler.py:42-56: the enrichment slots, then
\* the WAV and the JSON are written to the scratch directory; a failed write
\* ends the pipeline.
Persist(w) ==
  /\ At(w, "persist")
  /\ LET c == task[w]
         name == Rec(c).filename
     IN  /\ call_data' = [call_data EXCEPT ![c].tones = "{}", ![c].transcript = "[]"]
         /\ Ran(w, "persist", 0)
         /\ scratch' =
              IF Env(w).temp = "ok" THEN Put(Put(scratch, <<name, "wav">>, c), <<name, "json">>, c)
              ELSE IF Env(w).temp = "json_fail" THEN Put(scratch, <<name, "wav">>, c)
              ELSE scratch
         /\ IF Env(w).temp = "ok"
            THEN Goto(w, "transcode") /\ UNCHANGED <<ended, loc>>
            ELSE Leave(w, "return")
  /\ PoolUnchanged
  /\ UNCHANGED <<message_history, dicts, lists, verdict, indexed, dup_from, appended>>

\* Lines 126-130 with audio_file_handler.py:97-105: the transcode to M4A.
Transcode(w) ==
  /\ At(w, "transcode")
  /\ LET c == task[w]
         name == Rec(c).filename
         made == FileThere(name, "wav") /\ Env(w).m4a
     IN  IF Cfg(w).audio_compression.m4a_audio_compression.enabled
         THEN /\ Ran(w, "transcode", 0)
              /\ loc' = [loc EXCEPT ![w].m4a_exists = made]
              /\ scratch' = IF made THEN Put(scratch, <<name, "m4a">>, c) ELSE scratch
         ELSE UNCHANGED <<trace, loc, scratch>>
  /\ Goto(w, "legacy")
  /\ PoolUnchanged
  /\ UNCHANGED <<message_history, dicts, lists, verdict, ended, call_data, indexed,
                 dup_from, appended>>

\* What a request to a sink answers for call c: env says which requests
\* fail.  `throws` says whether the adapter's code lets an exception out
\* (otherwise it catches everything and returns an error result).
Answer(c, stage, n, throws) ==
  IF throws /\ <<stage, n>> \in Rec(c).env.raises THEN "raise"
  ELSE IF <<stage, n>> \in Rec(c).env.fails \cup Rec(c).env.raises THEN "fail"
  ELSE "ok"

\* icad_tone_detect_legacy_handler.py:10-39: line 11 and the errors the try
\* does not name raise.
upload_to_icad_legacy(c, n) == Answer(c, "legacy", n, TRUE)

\* rdio_handler.py:12-135: lines 20-62 stand before the try.
upload_to_rdio(c, n) == Answer(c, "rdio", n, TRUE)

\* trunk_player_handler.py:10-65: lines 11-14 stand before the try.
upload_to_trunk_player(c, n) == Answer(c, "trunk_player", n, TRUE)

\* icad_cloud_detect.py:10-54: every error is caught and answered with False.
upload_to_icad_cloud_detect(c, n) == Answer(c, "cloud_detect", n, FALSE)

\* icad_alerting_handler.py:7-37: the handler of lines 23-30 reads the error
\* response with e.response.json().get(...), which raises when the body is
\* JSON but no object; an exception raised in a handler leaves the function.
upload_to_icad_alert(c) == Answer(c, "alerting", 0, TRUE)

\* webhook_handler.py:58-77: every error is caught.
send_webhook(c, n) == Answer(c, "webhook", n, FALSE)

\* The three adapters below log and return: a failure is an error result.
upload_to_openmhz(c) == Answer(c, "openmhz", 0, FALSE)

upload_to_broadcastify_calls(c) == Answer(c, "broadcastify_calls", 0, FALSE)

upload_to_icad_player(c) == Answer(c, "icad_player", 0, FALSE)

\* A request to a sink at its call site: the stage is recorded; an exception
\* the call site does not catch leaves process_mqtt_call, anything else goes
\* on at `next`.
Request(w, stage, n, answer, caught, next) ==
  /\ Ran(w, stage, n)
  /\ IF answer = "raise" /\ ~caught
     THEN Leave(w, "raise")
     ELSE /\ pc' = [pc EXCEPT ![w] = next]
          /\ loc' = [loc EXCEPT ![w].j = IF next = stage THEN @ + 1 ELSE 1]
          /\ ended' = ended

\* A sink that is not requested: disabled, or a prerequisite is missing.
Skip(w, stage, next) ==
  /\ pc' = [pc EXCEPT ![w] = next]
  /\ loc' = [loc EXCEPT ![w].j = IF next = stage THEN @ + 1 ELSE 1]
  /\ UNCHANGED <<trace, ended>>

\* What no sink stage changes.
SinkUnchanged ==
  /\ PoolUnchanged
  /\ UNCHANGED <<message_history, dicts, lists, verdict, call_data, scratch,
                 indexed, dup_from, appended>>

\* Lines 134-152: the legacy tone-detect servers, each request in a try.
Legacy(w) ==
  /\ At(w, "legacy")
  /\ LET entries == Cfg(w).icad_tone_detect_legacy
         j == loc[w].j
     IN  IF j > Len(entries) THEN Skip(w, "legacy", "tone_detect")
         ELSE IF entries[j].enabled = 1
         THEN Request(w, "legacy", j, upload_to_icad_legacy(task[w], j), TRUE, "legacy")
         ELSE Skip(w, "legacy", "legacy")
  /\ SinkUnchanged

\* Lines 155-167: the inline tone detection.
ToneDetect(w) ==
  /\ At(w, "tone_detect")
  /\ LET c == task[w]
         cfg == Cfg(w).tone_detection
     IN  IF cfg.enabled = 1
         THEN IF ~talkgroup_is_allowed(Rec(c).talkgroup, cfg.allowed_talkgroups)
              THEN UNCHANGED <<call_data, trace>>
              ELSE /\ call_data' = [call_data EXCEPT ![c].tones = "detected"]
                   /\ Ran(w, "tone_detect", 0)
         ELSE /\ call_data' = [call_data EXCEPT ![c].tones = "empty categories"]
              /\ trace' = trace
  /\ Goto(w, "transcribe")
  /\ PoolUnchanged
  /\ UNCHANGED <<loc, message_history, dicts, lists, verdict, ended, scratch, indexed,
                 dup_from, appended>>

\* Lines 170-184: the transcription.
Transcribe(w) ==
  /\ At(w, "transcribe")
  /\ LET c == task[w]
         transcribe_cfg == Cfg(w).transcribe
     IN  IF transcribe_cfg.enabled = 1
         THEN IF ~talkgroup_is_allowed(Rec(c).talkgroup, transcribe_cfg.allowed_talkgroups)
              THEN UNCHANGED <<call_data, trace>>
              ELSE /\ call_data' = [call_data EXCEPT ![c].transcript =
                        IF <<"transcribe", 0>> \in Env(w).fails THEN "None" ELSE "response"]
                   /\ Ran(w, "transcribe", 0)
         ELSE /\ call_data' = [call_data EXCEPT ![c].transcript = "No Transcribe configured"]
              /\ trace' = trace
  /\ Goto(w, "json_rewrite")
  /\ PoolUnchanged
  /\ UNCHANGED <<loc, message_history, dicts, lists, verdict, ended, scratch, indexed,
                 dup_from, appended>>

\* The JSON sidecar written again before play_length is set.
JsonRewriteBeforePlayLength(w) ==
  /\ At(w, "json_rewrite")
  /\ LET c == task[w]
     IN  /\ call_data' = [call_data EXCEPT ![c].play_length = "sum"]
         /\ trace' = [trace EXCEPT ![c] =
                        Append(Append(@, <<"json_rewrite", 0>>), <<"play_length", 0>>)]
         /\ scratch' = IF <<"json_rewrite", 0>> \in Env(w).fails THEN scratch
                       ELSE Put(scratch, <<Rec(c).filename, "json">>, c)
  /\ Goto(w, "archive")
  /\ PoolUnchanged
  /\ UNCHANGED <<loc, message_history, dicts, lists, verdict, ended, indexed,
                 dup_from, appended>>

\* Lines 186-196: play_length, and the JSON sidecar written again (an error
\* of the write is caught and logged).
JsonRewrite(w) ==
  /\ At(w, "json_rewrite")
  /\ LET c == task[w]
     IN  /\ call_data' = [call_data EXCEPT ![c].play_length = "sum"]
         /\ trace' = [trace EXCEPT ![c] =
                        Append(Append(@, <<"play_length", 0>>), <<"json_rewrite", 0>>)]
         /\ scratch' = IF <<"json_rewrite", 0>> \in Env(w).fails THEN scratch
                       ELSE Put(scratch, <<Rec(c).filename, "json">>, c)
  /\ Goto(w, "archive")
  /\ PoolUnchanged
  /\ UNCHANGED <<loc, message_history, dicts, lists, verdict, ended, indexed,
                 dup_from, appended>>

\* archive_handler.py:59-91 as lines 200-202 use it: each of the three
\* artifacts that is in the scratch directory is uploaded; the URL of those
\* the backend accepts.
archive_files(c) ==
  {ext \in {"wav", "m4a", "json"} : FileThere(Rec(c).filename, ext) /\ ext \in Rec(c).env.arch}

\* The archive with the WAV URL taking precedence as audio_url.
ArchiveWavFirst(w) ==
  /\ At(w, "archive")
  /\ LET c == task[w]
         urls == archive_files(c)
     IN  IF Cfg(w).archive.enabled = 1
         THEN /\ Ran(w, "archive", 0)
              /\ call_data' = [call_data EXCEPT
                   ![c].audio_m4a_url = IF "m4a" \in urls THEN "m4a" ELSE @,
                   ![c].audio_wav_url = IF "wav" \in urls THEN "wav" ELSE @,
                   ![c].audio_url = IF "wav" \in urls THEN "wav"
                                    ELSE IF "m4a" \in urls THEN "m4a" ELSE @]
         ELSE UNCHANGED <<trace, call_data>>
  /\ Goto(w, "index")
  /\ PoolUnchanged
  /\ UNCHANGED <<loc, message_history, dicts, lists, verdict, ended, scratch, indexed,
                 dup_from, appended>>

\* Lines 199-217: the archive and the URLs of the CallRecord.
Archive(w) ==
  /\ At(w, "archive")
  /\ LET c == task[w]
         urls == archive_files(c)
         audio_url == IF "m4a" \in urls THEN "m4a" ELSE call_data[c].audio_url
     IN  IF Cfg(w).archive.enabled = 1
         THEN /\ Ran(w, "archive", 0)
              /\ call_data' = [call_data EXCEPT
                   ![c].audio_m4a_url = IF "m4a" \in urls THEN "m4a" ELSE @,
                   ![c].audio_wav_url = IF "wav" \in urls THEN "wav" ELSE @,
                   ![c].audio_url = IF "wav" \in urls /\ audio_url = "" THEN "wav"
                                    ELSE audio_url]
         ELSE UNCHANGED <<trace, call_data>>
  /\ Goto(w, "index")
  /\ PoolUnchanged
  /\ UNCHANGED <<loc, message_history, dicts, lists, verdict, ended, scratch, indexed,
                 dup_from, appended>>

\* Lines 220-222: the CallRecord goes to the transmissions index.
Index(w) ==
  /\ At(w, "index")
  /\ IF es
     THEN /\ indexed' = index_document("icad-transmissions", task[w])
          /\ Ran(w, "index", 0)
     ELSE UNCHANGED <<indexed, trace>>
  /\ Goto(w, "openmhz")
  /\ PoolUnchanged
  /\ UNCHANGED <<loc, message_history, dicts, lists, verdict, ended, call_data,
                 scratch, dup_from, appended>>

\* Lines 227-232.
OpenMHZ(w) ==
  /\ At(w, "openmhz")
  /\ IF Cfg(w).openmhz.enabled = 1 /\ loc[w].m4a_exists
     THEN Request(w, "openmhz", 0, upload_to_openmhz(task[w]), FALSE, "broadcastify_calls")
     ELSE Skip(w, "openmhz", "broadcastify_calls")
  /\ SinkUnchanged

\* Lines 235-241.
BroadcastifyCalls(w) ==
  /\ At(w, "broadcastify_calls")
  /\ IF Cfg(w).broadcastify_calls.enabled = 1 /\ loc[w].m4a_exists
     THEN Request(w, "broadcastify_calls", 0, upload_to_broadcastify_calls(task[w]),
                  FALSE, "icad_player")
     ELSE Skip(w, "broadcastify_calls", "icad_player")
  /\ SinkUnchanged

\* Lines 244-252.
IcadPlayer(w) ==
  /\ At(w, "icad_player")
  /\ IF /\ call_data[task[w]].audio_m4a_url # ""
        /\ Cfg(w).icad_player.enabled = 1
        /\ talkgroup_is_allowed(Rec(task[w]).talkgroup, Cfg(w).icad_player.allowed_talkgroups)
     THEN Request(w, "icad_player", 0, upload_to_icad_player(task[w]), FALSE, "rdio")
     ELSE Skip(w, "icad_player", "rdio")
  /\ SinkUnchanged

\* Lines 255-269: the RDIO servers, each request in a try.
Rdio(w) ==
  /\ At(w, "rdio")
  /\ LET entries == Cfg(w).rdio_systems
         j == loc[w].j
     IN  IF j > Len(entries) THEN Skip(w, "rdio", "trunk_player")
         ELSE IF entries[j].enabled = 1 /\ loc[w].m4a_exists
         THEN Request(w, "rdio", j, upload_to_rdio(task[w], j), TRUE, "rdio")
         ELSE Skip(w, "rdio", "rdio")
  /\ SinkUnchanged

\* Lines 272-285: the Trunk Player servers, each request in a try.
TrunkPlayer(w) ==
  /\ At(w, "trunk_player")
  /\ LET entries == Cfg(w).trunk_player_systems
         j == loc[w].j
     IN  IF j > Len(entries) THEN Skip(w, "trunk_player", "cloud_detect")
         ELSE IF entries[j].enabled = 1 /\ loc[w].m4a_exists
         THEN Request(w, "trunk_player", j, upload_to_trunk_player(task[w], j), TRUE,
                      "trunk_player")
         ELSE Skip(w, "trunk_player", "trunk_player")
  /\ SinkUnchanged

\* Lines 288-301: the Cloud Detect servers; the gate is the plain membership
\* of the talkgroup in the list.
CloudDetect(w) ==
  /\ At(w, "cloud_detect")
  /\ LET entries == Cfg(w).icad_cloud_detect
         j == loc[w].j
     IN  IF j > Len(entries) THEN Skip(w, "cloud_detect", "alerting")
         ELSE IF /\ entries[j].enabled = 1
                 /\ Rec(task[w]).talkgroup \in entries[j].allowed_talkgroups.tgs
         THEN Request(w, "cloud_detect", j, upload_to_icad_cloud_detect(task[w], j), TRUE,
                      "cloud_detect")
         ELSE Skip(w, "cloud_detect", "cloud_detect")
  /\ SinkUnchanged

\* Lines 304-312.
Alerting(w) ==
  /\ At(w, "alerting")
  /\ IF /\ Cfg(w).icad_alerting.enabled = 1
        /\ talkgroup_is_allowed(Rec(task[w]).talkgroup, Cfg(w).icad_alerting.allowed_talkgroups)
     THEN Request(w, "alerting", 0, upload_to_icad_alert(task[w]), FALSE, "webhook")
     ELSE Skip(w, "alerting", "webhook")
  /\ SinkUnchanged

\* Lines 315-326: the webhooks.
Webhooks(w) ==
  /\ At(w, "webhook")
  /\ LET entries == Cfg(w).webhooks
         j == loc[w].j
     IN  IF j > Len(entries) THEN Skip(w, "webhook", "cleanup")
         ELSE IF /\ entries[j].enabled = 1
                 /\ talkgroup_is_allowed(Rec(task[w]).talkgroup, entries[j].allowed_talkgroups)
         THEN Request(w, "webhook", j, send_webhook(task[w], j), FALSE, "webhook")
         ELSE Skip(w, "webhook", "webhook")
  /\ SinkUnchanged

\* Line 329 with audio_file_handler.py:59-71: the three scratch files of the
\* call's filename are removed, and process_mqtt_call returns.
Cleanup(w) ==
  /\ At(w, "cleanup")
  /\ Ran(w, "cleanup", 0)
  /\ LET name == Rec(task[w]).filename
         gone == {<<name, "wav">>, <<name, "m4a">>, <<name, "json">>}
     IN  scratch' = [f \in DOMAIN scratch \ gone |-> scratch[f]]
  /\ Leave(w, "return")
  /\ PoolUnchanged
  /\ UNCHANGED <<message_history, dicts, lists, verdict, call_data, indexed,
                 dup_from, appended>>

\* ------------------------------------------------------- the specification

\* One step of process_mqtt_call in worker w.
process_mqtt_call(w) ==
  \/ Guard(w)
  \/ ScanTg(w)
  \/ InsSys(w) \/ NewSys(w) \/ TgIn(w) \/ NewTg(w)
  \/ AppendCall(w) \/ LenTest(w) \/ CutSlice(w) \/ CutStore(w)
  \/ DupDoc(w)
  \/ Persist(w) \/ Transcode(w) \/ Legacy(w) \/ ToneDetect(w) \/ Transcribe(w)
  \/ JsonRewrite(w) \/ Archive(w) \/ Index(w)
  \/ OpenMHZ(w) \/ BroadcastifyCalls(w) \/ IcadPlayer(w) \/ Rdio(w) \/ TrunkPlayer(w)
  \/ CloudDetect(w) \/ Alerting(w) \/ Webhooks(w)
  \/ Cleanup(w)

Next ==
  \/ on_message
  \/ \E w \in Workers :
       wrapper_start(w) \/ process_mqtt_call(w) \/ wrapper_finally(w)

\* The feeds: what the broker may deliver.
Instances == {"A", "B"}
StartTimes == 0..MaxStart

SinkEvents ==
  {<<"openmhz", 0>>, <<"broadcastify_calls", 0>>, <<"icad_player", 0>>, <<"rdio", 1>>,
   <<"rdio", 3>>, <<"trunk_player", 1>>, <<"cloud_detect", 1>>, <<"alerting", 0>>,
   <<"webhook", 1>>}

\* One call on sys1, the world answering in every way of interest; or one
\* call of a system without duplicate detection, of an unknown system, of no
\* system.
PipeEnvs ==
  [temp : {"ok"}, m4a : BOOLEAN, arch : {{"wav", "m4a", "json"}},
   fails : {{}, SinkEvents},
   raises : {{}, {<<"legacy", 1>>}, {<<"rdio", 1>>}, {<<"rdio", 3>>}, {<<"trunk_player", 1>>},
             {<<"alerting", 0>>}}]
  \cup [temp : {"ok"}, m4a : {TRUE}, arch : {{"wav", "m4a", "json"}},
        fails : {{e} : e \in SinkEvents}, raises : {{}}]
  \cup [temp : {"ok"}, m4a : BOOLEAN, arch : {{}, {"wav"}, {"m4a"}, {"json"}},
        fails : {{}}, raises : {{}}]
  \cup [temp : {"ok"}, m4a : {TRUE}, arch : {{}}, fails : {{}}, raises : {{<<"alerting", 0>>}}]
  \cup [temp : {"wav_fail", "json_fail"}, m4a : {TRUE}, arch : {{"wav", "m4a", "json"}},
        fails : {{}}, raises : {{}}]

PipeFeeds ==
  {<<Call("sys1", tg, 0, 5, "A", "f1", env)>> : tg \in Talkgroups, env \in PipeEnvs}
  \cup {<<Call(sn, 1, 0, 5, "A", "f1", EnvOK)>> : sn \in {"sys3", "sysX", ""}}

\* Calls in a row on one system.
DedupCalls(sn, file) ==
  {Call(sn, tg, st, len, inst, file, EnvOK) :
     tg \in (IF sn = "sys1" THEN Talkgroups ELSE {1}), st \in StartTimes,
     len \in (IF sn = "sys1" THEN {5} ELSE {5, 6}), inst \in Instances}

First(calls) == {m \in calls : m.instance_id = "A" /\ m.start_time = 0}

DedupFeeds ==
  {<<a, b, c>> : a \in First(DedupCalls("sys1", "f1")),
                 b \in DedupCalls("sys1", "f2"), c \in DedupCalls("sys1", "f3")}
  \cup {<<a, b>> : a \in {m \in First(DedupCalls("sys2", "f1")) : m.call_length = 5},
                   b \in DedupCalls("sys2", "f2")}
  \cup {<<Call(sn, 1, 0, 5, "A", "f1", EnvOK), Call("sys1", 1, 0, 5, "B", "f2", EnvOK)>> :
          sn \in {"sysX", ""}}

\* Two calls in a row that find the windows nearly full.
WarmFeeds ==
  {<<a, b>> : a \in First(DedupCalls("sys1", "f1")), b \in DedupCalls("sys1", "f2")}
  \cup {<<a, b>> : a \in {m \in First(DedupCalls("sys2", "f1")) : m.call_length = 5},
                   b \in DedupCalls("sys2", "f2")}

\* Two calls that two workers may process at once: the second a duplicate of
\* the first on its talkgroup, a duplicate on the other simulcast talkgroup,
\* or a later call that is none.
RaceFeeds ==
  {<<Call("sys1", 1, 0, 5, "A", "f1", EnvOK), b>> :
     b \in {Call("sys1", 1, 0, 5, "B", "f2", EnvOK),
            Call("sys1", 2, 0, 5, "B", "f2", EnvOK),
            Call("sys1", 1, MaxStart, 5, "A", "f2", EnvOK)}}

\* The topics the broker may deliver below the base, and the base alone.
Topics ==
  {TopicBase \o t : t \in {<<"feeds", "audio">>, <<"feeds", "rates">>, <<"feeds", "recorders">>,
                            <<"status", "calls_active">>, <<"feeds", "call_end">>,
                            <<"units", "call">>, <<"units", "end">>, <<"units", "on">>,
                            <<"feeds", "config">>, <<>>}}

MaxRates == 2

\* One message of any topic, from a configured producer, from one that sends
\* no instance_id, or from one that sends the default instance_id.
MsgFeeds ==
  {<<IF t = TopicBase \o <<"feeds", "audio">>
     THEN Call("sys1", 1, 0, 5, inst, "f1", EnvOK)
     ELSE Stat(t, inst, n)>> :
     t \in Topics, inst \in {"A", "", "trunk-recorder"}, n \in {0, MaxRates}}

\* The mqtt section of the configuration: the subscription is every topic
\* below the base (the default of mqtt_handler.py:50) or the one topic of
\* the default configuration (config_handler.py:15).
MqttConfigs ==
  [topic : {TopicBase \o <<"#">>, TopicBase \o <<"feeds", "audio">>},
   stats_enable : BOOLEAN, unit_log_type : {"call", "end", ""}]

MqttDefault ==
  [topic |-> TopicBase \o <<"#">>, stats_enable |-> FALSE, unit_log_type |-> "call"]

\* The broker delivers a message to a topic filter that is its topic, or
\* that ends in "#" and is its topic's front up to there.
Delivers(filter, topic) ==
  \/ filter = topic
  \/ /\ filter[Len(filter)] = "#"
     /\ Len(topic) >= Len(filter) - 1
     /\ SubSeq(topic, 1, Len(filter) - 1) = SubSeq(filter, 1, Len(filter) - 1)

\* The pool at work.
Init ==
  /\ InitWith(RaceFeeds, NumWorkers, {ColdHistory, WarmHistory}, {TRUE})
  /\ mqtt = MqttDefault
  /\ AtWork
  /\ fn_in = None

Spec == Init /\ [][Next]_vars

\* A pool of one worker: the calls are processed one after the other.
InitSeq ==
  /\ \/ InitWith(PipeFeeds, 1, {ColdHistory, WarmHistory}, BOOLEAN) /\ mqtt = MqttDefault
     \/ InitWith(DedupFeeds, 1, {ColdHistory}, {TRUE}) /\ mqtt = MqttDefault
     \/ InitWith(WarmFeeds, 1, {WarmHistory}, BOOLEAN) /\ mqtt = MqttDefault
     \/ /\ InitWith(MsgFeeds, 1, {ColdHistory}, BOOLEAN)
        /\ mqtt \in MqttConfigs
        /\ Delivers(mqtt.topic, feed[1].topic)
  /\ AtWork
  /\ fn_in = None

SpecSeq == InitSeq /\ [][Next]_vars

\* is_duplicate taken alone, on every pair of calls and every configuration
\* of the bounds.
DupMessages ==
  [start_time : StartTimes, call_length : {4, 5, 6}, instance_id : Instances]

DupArgs ==
  [message1 : DupMessages, message2 : DupMessages, time_tolerance : StartTimes,
   length_tolerance : {0, 1}, check_same_instance_id : BOOLEAN]

InitDup ==
  /\ InitWith({<<>>}, 1, {ColdHistory}, {FALSE})
  /\ mqtt = MqttDefault
  /\ AtWork
  /\ fn_in \in DupArgs

is_duplicate_call ==
  /\ ~fn_out.done
  /\ fn_out' = [done |-> TRUE,
                value |-> is_duplicate(fn_in.message1, fn_in.message2, fn_in.time_tolerance,
                                       fn_in.length_tolerance, fn_in.check_same_instance_id)]
  /\ UNCHANGED <<feed, cursor, es, max_workers, queue, pending_tasks, running_tasks, pc,
                 task, loc, message_history, dicts, lists, verdict, ended, trace,
                 call_data, scratch, indexed, dup_from, appended, mqtt, routed, life,
                 reports, fn_in>>

NextDup == is_duplicate_call

SpecDup == InitDup /\ [][NextDup]_vars

\* ------------------------------------------------------- functions taken alone

\* What a function taken alone leaves as it is: all of the consumer.
FnUnchanged ==
  UNCHANGED <<feed, cursor, es, max_workers, queue, pending_tasks, running_tasks, pc,
              task, loc, message_history, dicts, lists, verdict, ended, trace,
              call_data, scratch, indexed, dup_from, appended, mqtt, routed, life,
              reports>>

InitFn(args) ==
  /\ InitWith({<<>>}, 1, {ColdHistory}, {FALSE})
  /\ mqtt = MqttDefault
  /\ AtWork
  /\ fn_in \in args

\* --------------------------------------------------------- the archive stores
\* remote_storage_handler.py: upload_file and clean_files of the four
\* stores.  Time is counted in ticks, TicksPerDay of them a day; a store is
\* a function from paths to the tick a file was written at, or Absent.

TicksPerDay == 3
MaxClock == 2 * TicksPerDay + 2
Absent == -1

Backends == {"local", "scp", "aws_s3", "google_cloud"}

ArchivePath == <<"archive", "sys1">>
DestinationFile == ArchivePath \o <<"2024", "call.wav">>
ArchivePaths == {DestinationFile, ArchivePath \o <<"2023", "old.wav">>, <<"archive", "sys2", "call.wav">>}

\* The path lies under the archive path (os.walk, find, Prefix=, prefix=).
Under(path, archive_path) ==
  /\ Len(path) >= Len(archive_path)
  /\ SubSeq(path, 1, Len(archive_path)) = archive_path

\* LocalStorage.clean_files: current_time - mtime >= archive_days * 24 * 3600.
LocalStorage_expired(age, archive_days) == age >= archive_days * TicksPerDay

\* SCPStorage.clean_files: find -mtime +archive_days, which counts the age
\* in whole days, the fraction dropped, and asks for more than archive_days.
SCPStorage_expired(age, archive_days) == age \div TicksPerDay > archive_days

\* AWSS3Storage.clean_files: current_time - last_modified > timedelta(days).
AWSS3Storage_expired(age, archive_days) == age > archive_days * TicksPerDay

\* GoogleCloudStorage.clean_files: age_days > archive_days, age_days the
\* age in seconds over 86400, a fraction.
GoogleCloudStorage_expired(age, archive_days) == age > archive_days * TicksPerDay

expired(backend, age, archive_days) ==
  CASE backend = "local" -> LocalStorage_expired(age, archive_days)
    [] backend = "scp" -> SCPStorage_expired(age, archive_days)
    [] backend = "aws_s3" -> AWSS3Storage_expired(age, archive_days)
    [] backend = "google_cloud" -> GoogleCloudStorage_expired(age, archive_days)

\* clean_files: every file under the archive path whose age passes the
\* store's test is removed.
clean_files(backend, store, archive_path, archive_days, now) ==
  [p \in DOMAIN store |->
     IF /\ store[p] # Absent
        /\ Under(p, archive_path)
        /\ expired(backend, now - store[p], archive_days)
     THEN Absent ELSE store[p]]

\* upload_file: the file is written at the destination, with the time of
\* the writing (shutil.copy, sftp.put, put_object, upload_from_file).
upload_file(store, destination_file_path, now) ==
  [store EXCEPT ![destination_file_path] = now]

\* A store with older files, a day's setting, and whether the upload to
\* come succeeds.
ArchiveArgs ==
  [backend : Backends, archive_days : 0..1, uploads : BOOLEAN, phase : {"start"},
   now : {TicksPerDay + 1},
   store : {[p \in ArchivePaths |-> IF p = DestinationFile THEN Absent ELSE t] : t \in {Absent, 0, TicksPerDay}}]

InitArchive == InitFn(ArchiveArgs)

\* upload_file is called; the call takes a tick.
upload_file_call ==
  /\ fn_in.phase = "start"
  /\ fn_in' = [fn_in EXCEPT !.phase = IF fn_in.uploads THEN "uploaded" ELSE "failed",
                            !.store = IF fn_in.uploads
                                      THEN upload_file(fn_in.store, DestinationFile, fn_in.now)
                                      ELSE fn_in.store,
                            !.now = fn_in.now + 1]
  /\ fn_out' = [done |-> FALSE, value |-> fn_in.uploads]
  /\ FnUnchanged

\* Time passes between the upload and the cleaning.
archive_wait ==
  /\ fn_in.phase = "uploaded"
  /\ fn_in.now < MaxClock
  /\ fn_in' = [fn_in EXCEPT !.now = fn_in.now + 1]
  /\ UNCHANGED fn_out
  /\ FnUnchanged

\* clean_files(archive_path, archive_days) is called.
clean_files_call ==
  /\ fn_in.phase \in {"uploaded", "failed"}
  /\ fn_in' = [fn_in EXCEPT !.phase = "cleaned",
                            !.store = clean_files(fn_in.backend, fn_in.store, ArchivePath,
                                                  fn_in.archive_days, fn_in.now)]
  /\ fn_out' = [done |-> TRUE, value |-> fn_out.value]
  /\ FnUnchanged

NextArchive ==
  \/ upload_file_call
  \/ archive_wait
  \/ clean_files_call

SpecArchive == InitArchive /\ [][NextArchive]_vars

\* --------------------------------------------------------------- the templates
\* helper_handler.py: generate_mapped_json.  A string is a sequence of
\* pieces: the braces, the dot, and names.  The data mapping holds a (which
\* is missing, a dict with or without b, a string, the empty string, a
\* number or None) and tones (an empty dict, or missing).

MaxSegments == 3

DataMappings ==
  {d \in [a : {"missing", "dict", "str", "empty", "int", "none"},
          b : {"missing", "str", "empty"}, tones : BOOLEAN] :
     d.a # "dict" => d.b = "missing"}

\* The kind of the value the keys of path lead to, from the mapping down.
KindAt(data, path) ==
  IF path = <<>> THEN "dict"
  ELSE IF path = << <<"a">> >> THEN data.a
  ELSE IF path = << <<"a">>, <<"b">> >> /\ data.a = "dict" THEN data.b
  ELSE IF path = << <<"tones">> >> /\ data.tones THEN "dict"
  ELSE "missing"

\* str(value) of line 88 for the value at path.
str(data, path) ==
  LET kind == KindAt(data, path)
  IN  CASE kind = "str" -> <<"v">>
        [] kind = "int" -> <<"7">>
        [] kind = "none" -> <<"None">>
        [] kind = "dict" /\ path = << <<"a">> >> ->
             <<"{">> \o (CASE data.b = "str" -> <<"'b': 'v'">>
                           [] data.b = "empty" -> <<"'b': ''">>
                           [] OTHER -> <<>>) \o <<"}">>
        [] kind = "dict" /\ path # << <<"a">> >> -> <<"{", "}">>
        [] OTHER -> <<>>

\* str.find: the first index from start on where the piece stands, 0 for none.
find(obj, piece, start) ==
  LET at == {i \in start..Len(obj) : obj[i] = piece}
  IN  IF at = {} THEN 0 ELSE CHOOSE i \in at : \A j \in at : i <= j

\* key.split('.')
RECURSIVE split(_)
split(key) ==
  LET dot == find(key, ".", 1)
  IN  IF dot = 0 THEN <<key>>
      ELSE <<SubSeq(key, 1, dot - 1)>> \o split(SubSeq(key, dot + 1, Len(key)))

\* The loop of get_value_from_dict: d.get(k, '') on what the keys before
\* led to, which raises AttributeError when that is not a dict; the loop
\* ends on ''.
RECURSIVE get_value(_, _, _)
get_value(data, path, keys) ==
  IF keys = <<>> THEN [raised |-> FALSE, s |-> str(data, path)]
  ELSE IF KindAt(data, path) # "dict" THEN [raised |-> TRUE, s |-> <<>>]
  ELSE IF KindAt(data, Append(path, Head(keys))) \in {"missing", "empty"}
  THEN [raised |-> FALSE, s |-> <<>>]
  ELSE get_value(data, Append(path, Head(keys)), Tail(keys))

get_value_from_dict(data, key) == get_value(data, <<>>, split(key))

\* replace_placeholders on a string: while a "{" with a "}" after it is
\* found, what stands between them is looked up and put in their place.
\* tones.report_text is made from data['tones'], a KeyError without it.
RECURSIVE replace_placeholders(_, _)
replace_placeholders(obj, data) ==
  LET start_idx == find(obj, "{", 1)
      end_idx == IF start_idx = 0 THEN 0 ELSE find(obj, "}", start_idx)
      placeholder == SubSeq(obj, start_idx + 1, end_idx - 1)
      value == IF placeholder = <<"tones", ".", "report_text">>
               THEN [raised |-> ~data.tones, s |-> <<>>]
               ELSE get_value_from_dict(data, placeholder)
  IN  IF start_idx = 0 \/ end_idx = 0 THEN [raised |-> FALSE, s |-> obj]
      ELSE IF value.raised THEN value
      ELSE replace_placeholders(SubSeq(obj, 1, start_idx - 1) \o value.s
                                  \o SubSeq(obj, end_idx + 1, Len(obj)), data)

\* The None generate_mapped_json returns when anything was raised.
NoResult == [form |-> "none", layout |-> "none", key |-> <<>>, s |-> <<>>]

\* generate_mapped_json that hands a dict template back as JSON text.
generate_mapped_json_always_dumps(template, data) ==
  LET key == replace_placeholders(template.key, data)
      val == replace_placeholders(template.s, data)
  IN  IF template.form = "none" \/ key.raised \/ val.raised THEN NoResult
      ELSE [form |-> "str", layout |-> "indent", key |-> key.s, s |-> val.s]

\* generate_mapped_json on a template {key: s}, a dict or its JSON text in
\* some layout: json.loads drops the layout, key and value are rendered,
\* and for a text json.dumps lays the result out with indent=2.  Whatever
\* is raised, a template that is neither among it, is caught: None.
generate_mapped_json(template, data) ==
  LET key == replace_placeholders(template.key, data)
      val == replace_placeholders(template.s, data)
  IN  IF template.form = "none" \/ key.raised \/ val.raised THEN NoResult
      ELSE [form |-> template.form,
            layout |-> IF template.form = "str" THEN "indent" ELSE "none",
            key |-> key.s, s |-> val.s]

\* What a template string is made of: text, tokens, single braces.
Token(path) == <<"{">> \o path \o <<"}">>

Tokens ==
  {Token(<<"a">>), Token(<<"a", ".", "b">>), Token(<<"c">>),
   Token(<<"tones", ".", "report_text">>)}

Segments == {<<"x">>, <<"{">>, <<"}">>} \cup Tokens

RECURSIVE Flatten(_)
Flatten(segments) ==
  IF segments = <<>> THEN <<>> ELSE Head(segments) \o Flatten(Tail(segments))

TemplateArgs ==
  {[template |-> [form |-> f[1], layout |-> f[2], key |-> <<"k">>, s |-> Flatten(segments)],
    segments |-> segments, data |-> data] :
     f \in {<<"str", "compact">>, <<"str", "indent">>, <<"dict", "none">>},
     segments \in UNION {[1..n -> Segments] : n \in 0..MaxSegments},
     data \in DataMappings}

InitTemplate == InitFn(TemplateArgs)

generate_mapped_json_call ==
  /\ ~fn_out.done
  /\ fn_out' = [done |-> TRUE, value |-> <<generate_mapped_json(fn_in.template, fn_in.data)>>]
  /\ UNCHANGED fn_in
  /\ FnUnchanged

\* The result is rendered again, with the same data.
generate_mapped_json_again ==
  /\ fn_out.done
  /\ Len(fn_out.value) = 1
  /\ fn_out' = [fn_out EXCEPT !.value = Append(@, generate_mapped_json(@[1], fn_in.data))]
  /\ UNCHANGED fn_in
  /\ FnUnchanged

NextTemplate ==
  \/ generate_mapped_json_call
  \/ generate_mapped_json_again

SpecTemplate == InitTemplate /\ [][NextTemplate]_vars

\* ------------------------------------------------------- the Liquidsoap sink
\* liquidsoap_handler.py: upload_to_broadcastify_icecast from the staging of
\* the file on, and the thread _schedule_delete starts.  Seconds are whole.

MaxCallLength == 100

\* The delay with the 90 seconds as a floor of the call length.
delete_delay_floor_90(call_length, delete_after_seconds) ==
  (IF call_length > 90 THEN call_length ELSE 90) + 20
    + (IF delete_after_seconds > 0 THEN delete_after_seconds ELSE 0)

\* Lines 221-222, call_length being call_data.get("call_length") or 0.0:
\* the call length if it is positive, 90 seconds otherwise, and 20 seconds,
\* and the configured seconds if they are positive.
delete_delay(call_length, delete_after_seconds) ==
  (IF call_length > 0 THEN call_length ELSE 90) + 20
    + (IF delete_after_seconds > 0 THEN delete_after_seconds ELSE 0)

\* A call with or without a call length, the configured delete_after_seconds,
\* and whether Liquidsoap takes the request.
LiquidsoapArgs ==
  [call_length : -1..MaxCallLength, has_call_length : BOOLEAN,
   delete_after_seconds : {-5, 0, 30}, pushed : BOOLEAN]

InitLiquidsoap == InitFn(LiquidsoapArgs)

\* The file is staged, the request pushed, and the deletion scheduled,
\* whether the push succeeded or not.
upload_to_broadcastify_icecast_call ==
  /\ ~fn_out.done
  /\ fn_out' = [done |-> TRUE,
                value |-> [ok |-> fn_in.pushed, staged |-> TRUE, slept |-> 0,
                           delay |-> delete_delay(IF fn_in.has_call_length
                                                  THEN fn_in.call_length ELSE 0,
                                                  fn_in.delete_after_seconds)]]
  /\ UNCHANGED fn_in
  /\ FnUnchanged

\* _schedule_delete's thread: it sleeps max(1.0, delay) and removes the file.
schedule_delete_worker ==
  /\ fn_out.done
  /\ fn_out.value.staged
  /\ fn_out' = [fn_out EXCEPT !.value.staged = FALSE,
                              !.value.slept = IF fn_out.value.delay > 1
                                              THEN fn_out.value.delay ELSE 1]
  /\ UNCHANGED fn_in
  /\ FnUnchanged

NextLiquidsoap ==
  \/ upload_to_broadcastify_icecast_call
  \/ schedule_delete_worker

SpecLiquidsoap == InitLiquidsoap /\ [][NextLiquidsoap]_vars

\* ------------------------------------------------------------ the play length
\* call_processor.py:186-190 taken alone, on call metadata with or without
\* a freqList, whose entries have a len or none, and with or without a
\* play_length of its own.

MaxFreqs == 3

\* The loop of lines 187-188 from the sum so far: an entry without a len
\* adds None, a TypeError that ends process_mqtt_call.
RECURSIVE play_length_loop(_, _)
play_length_loop(freqList, play_length) ==
  IF freqList = <<>> THEN [raised |-> FALSE, play_length |-> play_length]
  ELSE IF ~Head(freqList).has_len THEN [raised |-> TRUE, play_length |-> play_length]
  ELSE play_length_loop(Tail(freqList), play_length + Head(freqList).len)

\* The sum started from the play_length of the metadata.
play_length_from_metadata(call) ==
  play_length_loop(IF call.has_freqList THEN call.freqList ELSE <<>>,
                   IF call.has_play_length THEN call.play_length ELSE 0)

\* Lines 186-188: the sum starts from 0, over call_data.get("freqList", []).
play_length(call) ==
  play_length_loop(IF call.has_freqList THEN call.freqList ELSE <<>>, 0)

PlayArgs ==
  [has_freqList : BOOLEAN,
   freqList : UNION {[1..n -> [len : 0..2, has_len : BOOLEAN]] : n \in 0..MaxFreqs},
   has_play_length : BOOLEAN, play_length : {0, 7}]

InitPlay == InitFn(PlayArgs)

\* Lines 186-190: call_data["play_length"] is set to the sum, unless the
\* loop raised; then the call goes no further.
play_length_call ==
  /\ ~fn_out.done
  /\ fn_out' = [done |-> TRUE, value |-> play_length(fn_in)]
  /\ fn_in' = IF play_length(fn_in).raised THEN fn_in
              ELSE [fn_in EXCEPT !.has_play_length = TRUE,
                                 !.play_length = play_length(fn_in).play_length]
  /\ FnUnchanged

SpecPlay == InitPlay /\ [][play_length_call]_vars

\* ------------------------------------------------------------ the index client
\* elasticsearch_handler.py: the constructor of ElasticSearchClient, which
\* creates the indices, and index_document, on a cluster that holds some
\* indices already.

MaxClients == 2

\* The index names the callers of index_document use (call_processor.py:111,
\* 222; mqtt_handler.py:185, 215, 246, 271).
IndexTypes ==
  {"icad-transmissions", "icad-rates", "icad-recorders", "icad-duplicates", "icad-units"}

\* create_indices: create_rates_index, create_transmission_index,
\* create_recorder_index and create_duplicates_index, each of which creates
\* its index if the cluster does not hold it.
create_indices(indices) ==
  indices \cup {"icad-rates", "icad-transmissions", "icad-recorders", "icad-duplicates"}

\* ElasticSearchClient(config): the client is made and create_indices runs.
ElasticSearchClient_init ==
  /\ fn_in.clients < MaxClients
  /\ fn_in' = [fn_in EXCEPT !.clients = @ + 1, !.indices = create_indices(@)]
  /\ UNCHANGED fn_out
  /\ FnUnchanged

\* index_document(index_type, document) on a client: value tells whether
\* the document was sent to the cluster.
index_document_call ==
  /\ fn_in.clients >= 1
  /\ \E index_type \in IndexTypes :
       fn_out' = [done |-> TRUE,
                  value |-> [index_type |-> index_type,
                             sent |-> <<index_type, 0>> \in index_document(index_type, 0)]]
  /\ UNCHANGED fn_in
  /\ FnUnchanged

NextIndex ==
  \/ ElasticSearchClient_init
  \/ index_document_call

SpecIndex ==
  /\ InitFn([clients : {0}, indices : SUBSET (IndexTypes \cup {"other"})])
  /\ [][NextIndex]_vars

\* ------------------------------------------------------------- the SCP upload
\* remote_storage_handler.py:219-256, SCPStorage.upload_file with its default
\* max_attempts.  An attempt succeeds, or raises in _create_sftp_session, or
\* raises in sftp.put; whatever is raised is caught at line 249.

max_attempts == 3

ScpArgs ==
  [source : BOOLEAN, outcomes : [1..max_attempts -> {"ok", "no_session", "no_put"}],
   phase : {"start"}, attempt : {0}, slept : {0}]

\* Lines 222-224: without the source file False is returned at once; else
\* the loop of line 226 starts.
SCPStorage_upload_file ==
  /\ fn_in.phase = "start"
  /\ IF fn_in.source
     THEN /\ fn_in' = [fn_in EXCEPT !.phase = "try", !.attempt = 1]
          /\ UNCHANGED fn_out
     ELSE /\ fn_in' = [fn_in EXCEPT !.phase = "returned"]
          /\ fn_out' = [done |-> TRUE, value |-> "False"]
  /\ FnUnchanged

\* An attempt that gives up at the first failure.
scp_attempt_once ==
  /\ fn_in.phase = "try"
  /\ fn_in' = [fn_in EXCEPT !.phase = "returned"]
  /\ fn_out' = [done |-> TRUE,
                value |-> IF fn_in.outcomes[fn_in.attempt] = "ok" THEN "url" ELSE "False"]
  /\ FnUnchanged

\* Lines 227-252 and 255-256: one attempt.  A transfer that succeeds
\* returns the URL; a failure before the last attempt goes to the sleep of
\* line 253; after the last attempt the loop ends and False is returned.
scp_attempt ==
  /\ fn_in.phase = "try"
  /\ IF fn_in.outcomes[fn_in.attempt] = "ok"
     THEN /\ fn_in' = [fn_in EXCEPT !.phase = "returned"]
          /\ fn_out' = [done |-> TRUE, value |-> "url"]
     ELSE IF fn_in.attempt < max_attempts
     THEN /\ fn_in' = [fn_in EXCEPT !.phase = "sleep"]
          /\ UNCHANGED fn_out
     ELSE /\ fn_in' = [fn_in EXCEPT !.phase = "returned"]
          /\ fn_out' = [done |-> TRUE, value |-> "False"]
  /\ FnUnchanged

\* Line 253: time.sleep(5), and the next round of the loop.
scp_sleep ==
  /\ fn_in.phase = "sleep"
  /\ fn_in' = [fn_in EXCEPT !.phase = "try", !.attempt = @ + 1, !.slept = @ + 5]
  /\ UNCHANGED fn_out
  /\ FnUnchanged

NextScp ==
  \/ SCPStorage_upload_file
  \/ scp_attempt
  \/ scp_sleep

\* The thread that called upload_file goes on.
SpecScp == InitFn(ScpArgs) /\ [][NextScp]_vars /\ WF_vars(NextScp)

\* ------------------------------------------------------------ the archive stage
\* archive_handler.py: archive_audio_files taken alone.  The stores answer an
\* upload with a URL or with a failure value; the two cloud stores let
\* through what they do not catch (remote_storage_handler.py:72, 154-159:
\* an AttributeError on self.bucket after a constructor that failed at
\* lines 46-49 or returned at 105, an error of the connection).

MaxDays == 2

Extensions == {"wav", "m4a", "json"}

StageArgs ==
  {a \in [archive_type : Backends, archive_path : BOOLEAN, archive_days : 0..MaxDays,
          archive_extensions : {<<>>, <<"wav">>, <<"m4a", "wav">>, <<"wav", "m4a", "json">>,
                                <<"json", "mp3", "m4a">>},
          files : {Extensions, {"wav", "json"}, {}},
          answers : [Extensions -> {"url", "failure", "raises"}]] :
     \A x \in Extensions :
       a.answers[x] = "raises" => a.archive_type \in {"google_cloud", "aws_s3"}}

\* Lines 59-85 from the k-th requested extension on: an extension whose
\* file is in the scratch directory is uploaded, and the URL kept if there
\* is one; log is the calls made on the store.
RECURSIVE upload_loop(_, _, _, _)
upload_loop(a, k, urls, log) ==
  IF k > Len(a.archive_extensions) THEN [raised |-> FALSE, urls |-> urls, log |-> log]
  ELSE LET extension == a.archive_extensions[k]
       IN  IF extension \notin Extensions \/ extension \notin a.files
           THEN upload_loop(a, k + 1, urls, log)
           ELSE IF a.answers[extension] = "raises"
           THEN [raised |-> TRUE, urls |-> {}, log |-> Append(log, <<"upload_file", extension>>)]
           ELSE upload_loop(a, k + 1,
                            IF a.answers[extension] = "url" THEN urls \cup {extension} ELSE urls,
                            Append(log, <<"upload_file", extension>>))

\* archive_audio_files with the sweep for every setting of archive_days.
archive_audio_files_always_sweeps(a) ==
  LET up == upload_loop(a, 1, {}, <<>>)
  IN  IF ~a.archive_path /\ a.archive_type \notin {"google_cloud", "aws_s3"}
      THEN [raised |-> FALSE, urls |-> {}, log |-> <<>>]
      ELSE IF up.raised THEN up
      ELSE [up EXCEPT !.log = Append(@, <<"clean_files", a.archive_days>>)]

\* archive_audio_files: nothing is done without an archive path, unless
\* the store is a cloud store (lines 15-18); the uploads (59-85); then
\* clean_files if archive_days is 1 or more (87-89); the URLs (91).
archive_audio_files(a) ==
  LET up == upload_loop(a, 1, {}, <<>>)
  IN  IF ~a.archive_path /\ a.archive_type \notin {"google_cloud", "aws_s3"}
      THEN [raised |-> FALSE, urls |-> {}, log |-> <<>>]
      ELSE IF up.raised \/ a.archive_days < 1 THEN up
      ELSE [up EXCEPT !.log = Append(@, <<"clean_files", a.archive_days>>)]

archive_audio_files_call ==
  /\ ~fn_out.done
  /\ fn_out' = [done |-> TRUE, value |-> archive_audio_files(fn_in)]
  /\ UNCHANGED fn_in
  /\ FnUnchanged

SpecStage == InitFn(StageArgs) /\ [][archive_audio_files_call]_vars

\* ------------------------------------------------------------ the transcoder
\* audio_file_handler.py: compress_wav_m4a taken alone.  The world is the
\* scratch file, the encoder on the PATH, how each run of the encoder exits
\* and what the measuring run writes: a JSON block with the measurements, no
\* block, or a block in braces that is not JSON.

MaxMeasured == 2

EncodeArgs ==
  [wav : BOOLEAN, ffmpeg : BOOLEAN, normalization : BOOLEAN, use_loudnorm : BOOLEAN,
   pass1 : {"ok", "nonzero"}, stderr : {"json", "none", "not_json"},
   input_i : 1..MaxMeasured, pass2 : {"ok", "nonzero"}, single : {"ok", "nonzero"},
   phase : {"start"}, log : {<<>>}]

Returns(value) ==
  /\ fn_in' = [fn_in EXCEPT !.phase = "returned"]
  /\ fn_out' = [done |-> TRUE, value |-> value]

\* Lines 96-103 and 144, 256: the source and the encoder are looked for,
\* then the mode is chosen.
compress_wav_m4a ==
  /\ fn_in.phase = "start"
  /\ IF ~fn_in.wav \/ ~fn_in.ffmpeg
     THEN Returns("False")
     ELSE /\ fn_in' = [fn_in EXCEPT !.phase = IF fn_in.normalization /\ fn_in.use_loudnorm
                                                THEN "pass1" ELSE "single"]
          /\ UNCHANGED fn_out
  /\ FnUnchanged

\* The measuring run going on to the second run whatever it wrote.
first_pass_unparsed ==
  /\ fn_in.phase = "pass1"
  /\ IF fn_in.pass1 = "nonzero"
     THEN /\ fn_in' = [fn_in EXCEPT !.phase = "returned", !.log = Append(@, <<"measure", 0>>)]
          /\ fn_out' = [done |-> TRUE, value |-> "False"]
     ELSE /\ fn_in' = [fn_in EXCEPT !.phase = "pass2", !.log = Append(@, <<"measure", 0>>)]
          /\ UNCHANGED fn_out
  /\ FnUnchanged

\* Lines 174-195: the measuring run; a nonzero exit and a missing block
\* return False, a block that json.loads refuses raises.
first_pass ==
  /\ fn_in.phase = "pass1"
  /\ IF fn_in.pass1 = "nonzero" \/ fn_in.stderr # "json"
     THEN /\ fn_in' = [fn_in EXCEPT !.phase = "returned", !.log = Append(@, <<"measure", 0>>)]
          /\ fn_out' = [done |-> TRUE,
                         value |-> IF fn_in.pass1 = "ok" /\ fn_in.stderr = "not_json"
                                   THEN "raised" ELSE "False"]
     ELSE /\ fn_in' = [fn_in EXCEPT !.phase = "pass2", !.log = Append(@, <<"measure", 0>>)]
          /\ UNCHANGED fn_out
  /\ FnUnchanged

\* Lines 204-254: the encoding run with the measured values.
second_pass ==
  /\ fn_in.phase = "pass2"
  /\ fn_in' = [fn_in EXCEPT !.phase = "returned", !.log = Append(@, <<"encode", fn_in.input_i>>)]
  /\ fn_out' = [done |-> TRUE, value |-> IF fn_in.pass2 = "ok" THEN "True" ELSE "False"]
  /\ FnUnchanged

\* Lines 256-299: the single run.
single_pass ==
  /\ fn_in.phase = "single"
  /\ fn_in' = [fn_in EXCEPT !.phase = "returned", !.log = Append(@, <<"single", 0>>)]
  /\ fn_out' = [done |-> TRUE, value |-> IF fn_in.single = "ok" THEN "True" ELSE "False"]
  /\ FnUnchanged

NextEncode == compress_wav_m4a \/ first_pass \/ second_pass \/ single_pass

SpecEncode == InitFn(EncodeArgs) /\ [][NextEncode]_vars

\* ------------------------------------------------------------ a failing message
\* Two messages, the first of which may fail at a stage of its pipeline: a
\* scratch write fails (the pipeline returns, call_processor.py:121-123) or
\* an adapter raises, which process_message catches (mqtt_handler.py:280).
\* The second is a later call, a duplicate from the other instance, or the
\* first one sent again by its instance, which sys1 does not take for a
\* duplicate.

FailEnvs ==
  {EnvOK}
  \cup [temp : {"ok"}, m4a : {TRUE}, arch : {{"wav", "m4a", "json"}}, fails : {{}},
        raises : {{<<"legacy", 1>>}, {<<"rdio", 1>>}, {<<"rdio", 3>>},
                  {<<"trunk_player", 1>>}, {<<"alerting", 0>>}}]
  \cup [temp : {"wav_fail", "json_fail"}, m4a : {TRUE}, arch : {{"wav", "m4a", "json"}},
        fails : {{}}, raises : {{}}]

FailFeeds ==
  {<<Call("sys1", 1, 0, 5, "A", "f1", env), b>> :
     env \in FailEnvs,
     b \in {Call("sys1", 1, MaxStart, 5, "A", "f2", EnvOK),
            Call("sys1", 1, 0, 5, "B", "f2", EnvOK),
            Call("sys1", 1, 0, 5, "A", "f1", [EnvOK EXCEPT !.m4a = FALSE]),
            Call("sys1", 1, 0, 5, "A", "f1", EnvOK)}}

\* A first message that fails in a pool of two workers, the other of which
\* may be processing the second.
FailFeedsAtOnce ==
  {<<Call("sys1", 1, 0, 5, "A", "f1", [EnvOK EXCEPT !.raises = {<<"rdio", 1>>}]),
     Call("sys1", 1, MaxStart, 5, "A", "f2", EnvOK)>>}

InitFail ==
  /\ \/ InitWith(FailFeeds, 1, {ColdHistory, WarmHistory}, {TRUE})
     \/ InitWith(FailFeedsAtOnce, NumWorkers, {WarmHistory}, {TRUE})
  /\ mqtt = MqttDefault
  /\ AtWork
  /\ fn_in = None

SpecFail == InitFail /\ [][Next]_vars

\* The network loop delivers what the broker sent, and the threads of the
\* pool run while they have work.
FairFail == SpecFail /\ WF_vars(Next)

\* ------------------------------------------------------------ the loop of the rendering
\* helper_handler.py:72-89, one round of `while True` at a time, on a data
\* mapping whose values are strings that may hold braces themselves.  The
\* loop is followed for MaxRounds rounds.

MaxRounds == 6

Values ==
  {<<"v">>, <<"{", "a", "}">>, <<"{", "b", "}">>, <<"x", "{", "a", "}">>}

RenderArgs ==
  [obj : {<<"x">>, <<"{", "a", "}">>, <<"{", "b", "}">>, <<"{", "c", "}">>,
          <<"x", "{", "a", "}", "{", "b", "}">>, <<"}", "{", "a">>, <<"{", "a", ".", "b", "}">>},
   data : [{"a", "b"} -> Values], rounds : {0}]

\* get_value_from_dict on a mapping of strings: a key that is missing gives
\* '', a second key is asked of a string, which has no get.
lookup(data, placeholder) ==
  LET keys == split(placeholder)
  IN  IF Len(keys[1]) # 1 \/ keys[1][1] \notin DOMAIN data THEN [raised |-> FALSE, s |-> <<>>]
      ELSE IF Len(keys) > 1 THEN [raised |-> TRUE, s |-> <<>>]
      ELSE [raised |-> FALSE, s |-> data[keys[1][1]]]

\* Lines 73-76: no "{" with a "}" after it is left, and the string is returned.
replace_placeholders_break ==
  /\ ~fn_out.done
  /\ LET start_idx == find(fn_in.obj, "{", 1)
         end_idx == IF start_idx = 0 THEN 0 ELSE find(fn_in.obj, "}", start_idx)
     IN  /\ start_idx = 0 \/ end_idx = 0
         /\ fn_out' = [done |-> TRUE, value |-> fn_in.obj]
  /\ UNCHANGED fn_in
  /\ FnUnchanged

\* Lines 73-88, one round: the first "{" and the first "}" after it, the
\* value of what stands between them put in their place (line 88), and the
\* search starts again at the head of the new string.  An exception ends
\* generate_mapped_json with None (lines 109-111).
replace_placeholders_round ==
  /\ ~fn_out.done
  /\ fn_in.rounds < MaxRounds
  /\ LET start_idx == find(fn_in.obj, "{", 1)
         end_idx == IF start_idx = 0 THEN 0 ELSE find(fn_in.obj, "}", start_idx)
         value == lookup(fn_in.data, SubSeq(fn_in.obj, start_idx + 1, end_idx - 1))
     IN  /\ start_idx # 0 /\ end_idx # 0
         /\ IF value.raised
            THEN /\ fn_out' = [done |-> TRUE, value |-> NoResult]
                 /\ fn_in' = [fn_in EXCEPT !.rounds = @ + 1]
            ELSE /\ fn_in' = [fn_in EXCEPT !.rounds = @ + 1,
                                           !.obj = SubSeq(fn_in.obj, 1, start_idx - 1)
                                                   \o value.s
                                                   \o SubSeq(fn_in.obj, end_idx + 1, Len(fn_in.obj))]
                 /\ UNCHANGED fn_out
  /\ FnUnchanged

NextRender == replace_placeholders_round \/ replace_placeholders_break

SpecRender == InitFn(RenderArgs) /\ [][NextRender]_vars

\* The thread that renders runs on.
FairRender == SpecRender /\ WF_vars(NextRender)

\* ------------------------------------------------------------ the scratch directory
\* Two calls that passed the guard and the duplicate check, each in its own
\* worker, whose stages that touch the scratch directory interleave in
\* every way.  A scratch file is <temp_file_path>/<filename> with the
\* extension changed (audio_file_handler.py:18, 31, 60-62, 113); files says
\* which call wrote the file that is there, 0 for no file.

TwoCalls == {1, 2}

ScratchFiles == {"f1", "f2"} \X Extensions

ScratchArgs ==
  [filename : {<<"f1", "f1">>, <<"f1", "f2">>},
   m4a : [TwoCalls -> BOOLEAN],
   at : {[c \in TwoCalls |-> "persist"]},
   files : {[f \in ScratchFiles |-> 0]}]

Written(c, ext) == [fn_in.files EXCEPT ![<<fn_in.filename[c], ext>>] = c]

Moved(c, next, files) == [fn_in EXCEPT !.at[c] = next, !.files = files]

\* call_processor.py:120 with save_temporary_files: the WAV and the JSON
\* are written under the call's filename.
save_temporary_files(c) ==
  /\ fn_in.at[c] = "persist"
  /\ fn_in' = Moved(c, "transcode",
                    [Written(c, "wav") EXCEPT ![<<fn_in.filename[c], "json">>] = c])
  /\ UNCHANGED fn_out
  /\ FnUnchanged

\* Line 130 with compress_wav_m4a: without the WAV nothing is made
\* (audio_file_handler.py:98-100); the encoder writes the M4A.
compress_wav_m4a_stage(c) ==
  /\ fn_in.at[c] = "transcode"
  /\ fn_in' = Moved(c, "json_rewrite",
                    IF fn_in.files[<<fn_in.filename[c], "wav">>] # 0 /\ fn_in.m4a[c]
                    THEN Written(c, "m4a") ELSE fn_in.files)
  /\ UNCHANGED fn_out
  /\ FnUnchanged

\* Line 194 with save_temporary_json_file: the JSON is written again.
save_temporary_json_file(c) ==
  /\ fn_in.at[c] = "json_rewrite"
  /\ fn_in' = Moved(c, "archive", Written(c, "json"))
  /\ UNCHANGED fn_out
  /\ FnUnchanged

\* Lines 199-217: the archive reads the scratch files.
archive_stage(c) ==
  /\ fn_in.at[c] = "archive"
  /\ fn_in' = Moved(c, "sinks", fn_in.files)
  /\ UNCHANGED fn_out
  /\ FnUnchanged

\* Lines 220-324: the sinks read the scratch files.
sink_stages(c) ==
  /\ fn_in.at[c] = "sinks"
  /\ fn_in' = Moved(c, "cleanup", fn_in.files)
  /\ UNCHANGED fn_out
  /\ FnUnchanged

\* Line 329 with clean_temp_files: the three files of the call's filename
\* are removed if they are there.
clean_temp_files(c) ==
  /\ fn_in.at[c] = "cleanup"
  /\ fn_in' = Moved(c, "done",
                    [f \in ScratchFiles |->
                       IF f[1] = fn_in.filename[c] THEN 0 ELSE fn_in.files[f]])
  /\ UNCHANGED fn_out
  /\ FnUnchanged

NextScratch ==
  \E c \in TwoCalls :
    \/ save_temporary_files(c)
    \/ compress_wav_m4a_stage(c)
    \/ save_temporary_json_file(c)
    \/ archive_stage(c)
    \/ sink_stages(c)
    \/ clean_temp_files(c)

SpecScratch == InitFn(ScratchArgs) /\ [][NextScratch]_vars

\* ------------------------------------------------------------ the life cycle
\* The main thread of mqtt_consumer.py, the callbacks the client's network
\* loop thread runs, and the pool.  The messages are statistics messages,
\* which process_message drops at once (statistics are disabled).

MaxMessages == 3

LifeFeeds ==
  {[i \in 1..n |-> Stat(TopicBase \o <<"feeds", "rates">>, "A", 0)] : n \in 0..MaxMessages}

\* What no step of the life cycle changes.
CallsUnchanged ==
  UNCHANGED <<feed, cursor, es, max_workers, queue, pending_tasks, running_tasks, pc,
              task, loc, message_history, dicts, lists, verdict, ended, trace,
              call_data, scratch, indexed, dup_from, appended, mqtt, routed, reports,
              fn_in, fn_out>>

\* The pool has no task left: the queue is empty and every worker is idle.
Drained == queue = <<>> /\ \A w \in Workers : pc[w] = "idle"

\* MQTTClient.start_mqtt_connection as main() calls it (mqtt_consumer.py:42-43):
\* client.connect succeeds, or it raises, and then the error flag is set
\* and disconnect() shuts the executor down; loop_start is called in either
\* case, and main enters its sleep loop.
start_mqtt_connection ==
  /\ main = "start"
  /\ \E connected \in BOOLEAN :
       IF connected
       THEN /\ connection' = "connecting"
            /\ UNCHANGED <<error_flag, shutdown>>
       ELSE /\ connection' = "failed"
            /\ error_flag' = TRUE
            /\ shutdown' = TRUE
  /\ loop_thread' = "running"
  /\ main' = "sleep"
  /\ UNCHANGED subscription
  /\ CallsUnchanged

\* MQTTClient.on_connect: the error flag is set for a nonzero reason code
\* only when the broker reports a present session; the subscription is
\* requested in every case.
on_connect ==
  /\ loop_thread = "running"
  /\ connection = "connecting"
  /\ \E session_present \in BOOLEAN, reason_code \in {0, 5} :
       /\ error_flag' = (error_flag \/ (session_present /\ reason_code > 0))
       /\ connection' = IF reason_code = 0 THEN "accepted" ELSE "refused"
  /\ subscription' = "requested"
  /\ UNCHANGED <<loop_thread, shutdown, main>>
  /\ CallsUnchanged

\* MQTTClient.on_subscribe: the reason code of the subscription is logged,
\* a failure (128 and above) as an error.
on_subscribe ==
  /\ loop_thread = "running"
  /\ connection = "accepted"
  /\ subscription = "requested"
  /\ \E status_code \in {0, 128} :
       subscription' = IF status_code >= 128 THEN "failed" ELSE "granted"
  /\ UNCHANGED <<error_flag, connection, loop_thread, shutdown, main>>
  /\ CallsUnchanged

\* on_disconnect with a shutdown that cancels what is queued.
on_disconnect_cancelling ==
  /\ loop_thread = "running"
  /\ connection \in {"accepted", "refused"}
  /\ error_flag' = TRUE
  /\ connection' = "lost"
  /\ shutdown' = TRUE
  /\ loop_thread' = "waiting"
  /\ queue' = <<>>
  /\ pending_tasks' = pending_tasks - Len(queue)
  /\ UNCHANGED <<subscription, main>>
  /\ UNCHANGED <<feed, cursor, es, max_workers, running_tasks, pc,
                 task, loc, message_history, dicts, lists, verdict, ended, trace,
                 call_data, scratch, indexed, dup_from, appended, mqtt, routed, reports,
                 fn_in, fn_out>>

\* MQTTClient.on_disconnect up to the wait of executor.shutdown(wait=True)
\* in disconnect(): the error flag is set, the loop is told to stop (it is
\* this thread, which goes on in the callback), and the executor is shut
\* down; the network loop thread waits in the callback for the pool.
on_disconnect ==
  /\ loop_thread = "running"
  /\ connection \in {"accepted", "refused"}
  /\ error_flag' = TRUE
  /\ connection' = "lost"
  /\ shutdown' = TRUE
  /\ loop_thread' = "waiting"
  /\ UNCHANGED <<subscription, main>>
  /\ CallsUnchanged

\* executor.shutdown(wait=True) returns in on_disconnect's disconnect():
\* the pool has run every task; the callback returns and the loop ends.
on_disconnect_return ==
  /\ loop_thread = "waiting"
  /\ Drained
  /\ loop_thread' = "stopped"
  /\ UNCHANGED <<error_flag, connection, subscription, shutdown, main>>
  /\ CallsUnchanged

\* SIGINT: KeyboardInterrupt ends the sleep loop of main
\* (mqtt_consumer.py:46-51) and the finally block is entered.
sigint ==
  /\ main = "sleep"
  /\ main' = "finally"
  /\ UNCHANGED <<error_flag, connection, subscription, loop_thread, shutdown>>
  /\ CallsUnchanged

\* mqtt_client.disconnect() in main's finally block, up to the wait of
\* executor.shutdown(wait=True): loop_stop joins the network loop thread
\* (which may be in a callback), and the executor is shut down.
main_disconnect ==
  /\ main = "finally"
  /\ loop_thread # "waiting"
  /\ loop_thread' = "stopped"
  /\ shutdown' = TRUE
  /\ main' = "shutdown"
  /\ UNCHANGED <<error_flag, connection, subscription>>
  /\ CallsUnchanged

\* executor.shutdown(wait=True) returns in main's disconnect(): main()
\* returns, and the interpreter exits with code 0.
main_exit ==
  /\ main = "shutdown"
  /\ Drained
  /\ main' = "exit_0"
  /\ UNCHANGED <<error_flag, connection, subscription, loop_thread, shutdown>>
  /\ CallsUnchanged

InitLife ==
  /\ InitWith(LifeFeeds, NumWorkers, {ColdHistory}, {FALSE})
  /\ mqtt = MqttDefault
  /\ error_flag = FALSE
  /\ connection = "none"
  /\ subscription = "none"
  /\ loop_thread = "none"
  /\ shutdown = FALSE
  /\ main = "start"
  /\ reports = <<>>
  /\ fn_in = None

PoolStep == \E w \in Workers : wrapper_start(w) \/ wrapper_finally(w)

NextLife ==
  \/ start_mqtt_connection
  \/ on_connect
  \/ on_subscribe
  \/ on_message
  \/ on_disconnect
  \/ on_disconnect_return
  \/ sigint
  \/ main_disconnect
  \/ main_exit
  \/ PoolStep

SpecLife == InitLife /\ [][NextLife]_vars

\* The threads of the program go on while they can: the pool's workers,
\* the waits of executor.shutdown, the start of main.  The broker and the
\* operator (connection results, messages, disconnects, SIGINT) owe nothing.
FairLife ==
  /\ SpecLife
  /\ WF_vars(start_mqtt_connection)
  /\ WF_vars(PoolStep)
  /\ WF_vars(on_disconnect_return)
  /\ WF_vars(main_disconnect)
  /\ WF_vars(main_exit)

\* ------------------------------------------------------------ the pool alone
\* TrackingThreadPoolExecutor under any sequence of submit, shutdown and
\* task completions: on_message submits whatever the executor's state, and
\* shutdown may come between two submits.

MaxSubmits == 4

PoolFeeds ==
  {[i \in 1..n |-> Stat(TopicBase \o <<"feeds", "rates">>, "A", 0)] : n \in 0..MaxSubmits}

\* ThreadPoolExecutor.shutdown as mqtt_handler.py:322 calls it: from now on
\* submit raises; the tasks queued and running are still run.
executor_shutdown ==
  /\ ~shutdown
  /\ shutdown' = TRUE
  /\ UNCHANGED <<error_flag, connection, subscription, loop_thread, main>>
  /\ CallsUnchanged

InitPool ==
  /\ \E pool \in 1..NumWorkers : InitWith(PoolFeeds, pool, {ColdHistory}, {FALSE})
  /\ mqtt = MqttDefault
  /\ AtWork
  /\ fn_in = None

NextPool == on_message \/ executor_shutdown \/ PoolStep

SpecPool == InitPool /\ [][NextPool]_vars

\* --------------------------------------------------------------- the claims

Abs(x) == IF x < 0 THEN 0 - x ELSE x

\* The duplicate predicate in the words of the specification.
Duplicates(existing, new, T, L, check_same_instance) ==
  /\ Abs(new.start_time - existing.start_time) <= T
  /\ Abs(new.call_length - existing.call_length) <= L
  /\ (check_same_instance \/ new.instance_id # existing.instance_id)

\* Call b is a duplicate of call a under the configuration of a's system.
DuplicatesOn(a, b) ==
  LET d == DTD(Rec(a).short_name)
  IN  Duplicates(Rec(a), Rec(b), d.start_difference_threshold, d.length_threshold,
                 d.check_same_instance)

\* Duplicate detection is configured and enabled for call c.
Checked(c) ==
  /\ Rec(c).short_name \in SystemNames
  /\ DTD(Rec(c).short_name).enabled = 1

SameKey(a, b) ==
  /\ Rec(a).short_name = Rec(b).short_name
  /\ Rec(a).talkgroup = Rec(b).talkgroup

\* The records of the window of (sn, tg), oldest first.
WindowOf(sn, tg) == IF Window(sn, tg) = None THEN <<>> ELSE lists[Window(sn, tg)]

DedupStages ==
  {"scan_tg", "ins_sys", "new_sys", "tg_in", "new_tg", "app", "len", "cut_slice",
   "cut_store"}

\* Worker w has just decided whether its call is a duplicate.
Decided(w) == pc[w] \in {"ins_sys", "dup_doc"}

\* Call c has left the duplicate detection.
PastDedup(c) ==
  \/ ended[c] # "no"
  \/ \E w \in Workers : task[w] = c /\ pc[w] \in OwnStages \ {"dup_doc"}

StagesOf(c) == {trace[c][i][1] : i \in DOMAIN trace[c]}

\* C1: of two calls on the same (short_name, talkgroup) that are duplicates
\* of each other, at most one is accepted, whatever the interleaving of the
\* two workers that process them.
OneOfTwoDuplicatesAccepted ==
  \A a, b \in CallIds :
    (a # b /\ Checked(a) /\ SameKey(a, b) /\ DuplicatesOn(a, b) /\ DuplicatesOn(b, a))
      => ~(verdict[a] = "passed" /\ verdict[b] = "passed")

\* C2, as stated: a call b that is processed after a call a of the same
\* (system, talkgroup), and that the thresholds make a duplicate of a, is
\* rejected.
LaterDuplicateRejected ==
  \A w \in Workers :
    Decided(w) =>
      \A a \in CallIds :
        (/\ a # task[w]
         /\ ended[a] # "no"
         /\ Checked(a)
         /\ SameKey(a, task[w])
         /\ DuplicatesOn(a, task[w]))
          => verdict[task[w]] = "duplicate"

\* C2, amended: a call b that is processed after a call a of the same
\* (system, talkgroup), and that the thresholds make a duplicate of a, is
\* rejected when a was accepted and is still in the window of the talkgroup
\* at the time b is checked.
LaterDuplicateOfWindowedRejected ==
  \A w \in Workers :
    (Decided(w) /\ Checked(task[w])) =>
      \A a \in Range(WindowOf(Rec(task[w]).short_name, Rec(task[w]).talkgroup)) :
        (a # task[w] /\ DuplicatesOn(task[w], a))
          => verdict[task[w]] = "duplicate"

\* C2, the case: a call is rejected for a call of the feed that was accepted
\* before it and started a full threshold earlier or later.
LaterDuplicateRejectedCase ==
  \E w \in Workers :
    /\ Decided(w)
    /\ Checked(task[w])
    /\ verdict[task[w]] = "duplicate"
    /\ \E a \in Range(WindowOf(Rec(task[w]).short_name, Rec(task[w]).talkgroup)) \cap CallIds :
         /\ DuplicatesOn(task[w], a)
         /\ Rec(a).start_time # Rec(task[w]).start_time

\* C3: once every invocation has left the duplicate detection, every window
\* holds at most 15 records, and they are the latest calls accepted into it,
\* in the order of their insertion.
WindowsHoldLatestAccepted ==
  (\A w \in Workers : pc[w] \notin DedupStages) =>
    \A sn \in SystemNames, tg \in Talkgroups :
      /\ Len(WindowOf(sn, tg)) <= HistoryLimit
      /\ WindowOf(sn, tg) = Last(appended[sn][tg], HistoryLimit)

\* C4: an accepted call that has left the duplicate detection was appended
\* to the window of every talkgroup it was checked against, and is in that
\* window as long as fewer than 15 calls were appended to it afterwards.
AcceptedStaysInWindow ==
  \A c \in CallIds :
    (verdict[c] = "passed" /\ PastDedup(c)) =>
      \A tg \in Range(relevant_talkgroups(Rec(c).short_name, Rec(c).talkgroup)) :
        LET log == appended[Rec(c).short_name][tg]
        IN  /\ c \in Range(log)
            /\ \A i \in DOMAIN log :
                 (log[i] = c /\ Len(log) - i < HistoryLimit)
                   => c \in Range(WindowOf(Rec(c).short_name, tg))

\* Some record of the window of (sn, tg) makes call b a duplicate.
MatchIn(sn, tg, b) ==
  \E a \in Range(WindowOf(sn, tg)) :
    is_duplicate(Rec(a), Rec(b), DTD(sn).start_difference_threshold,
                 DTD(sn).length_threshold, DTD(sn).check_same_instance)

\* C5: a call on a simulcast talkgroup is rejected exactly when the window
\* of some talkgroup of the simulcast list holds a match; any other call is
\* rejected exactly when the window of its own talkgroup holds a match.
SimulcastWindowsScanned ==
  \A w \in Workers :
    (Decided(w) /\ Checked(task[w])) =>
      LET b == task[w]
          sn == Rec(b).short_name
          simulcast == Range(DTD(sn).simulcast_talkgroups)
      IN  IF Rec(b).talkgroup \in simulcast
          THEN verdict[b] = "duplicate" <=> \E tg \in simulcast : MatchIn(sn, tg, b)
          ELSE verdict[b] = "duplicate" <=> MatchIn(sn, Rec(b).talkgroup, b)

\* C5, the case: a call on a simulcast talkgroup was rejected for a record
\* of the other simulcast talkgroup, and a call on a talkgroup outside the
\* list is accepted while a simulcast window holds a match for it.
SimulcastWindowsScannedCase ==
  /\ \E c \in CallIds : verdict[c] = "duplicate" /\ dup_from[c] # Rec(c).talkgroup
  /\ \E w \in Workers :
       /\ pc[w] = "ins_sys"
       /\ Rec(task[w]).talkgroup \notin Range(DTD(Rec(task[w]).short_name).simulcast_talkgroups)
       /\ \E tg \in Range(DTD(Rec(task[w]).short_name).simulcast_talkgroups) :
            MatchIn(Rec(task[w]).short_name, tg, task[w])

\* C6: is_duplicate answers true exactly when the start times differ by at
\* most T, the lengths by at most L, and check_same_instance holds or the
\* instances differ; without check_same_instance two calls of one instance
\* are never duplicates.
IsDuplicateIsThePredicate ==
  fn_out.done =>
    /\ fn_out.value <=>
         Duplicates(fn_in.message1, fn_in.message2, fn_in.time_tolerance,
                    fn_in.length_tolerance, fn_in.check_same_instance_id)
    /\ (/\ ~fn_in.check_same_instance_id
        /\ fn_in.message1.instance_id = fn_in.message2.instance_id) => ~fn_out.value

\* C6, the case: two calls of different instances a full threshold apart in
\* start time and in length are duplicates.
IsDuplicateAtTheThresholds ==
  /\ fn_out.done
  /\ fn_out.value
  /\ ~fn_in.check_same_instance_id
  /\ fn_in.time_tolerance > 0
  /\ fn_in.length_tolerance > 0
  /\ Abs(fn_in.message1.start_time - fn_in.message2.start_time) = fn_in.time_tolerance
  /\ Abs(fn_in.message1.call_length - fn_in.message2.call_length) = fn_in.length_tolerance

\* C7: a call whose short_name is empty or names no configured system
\* returns from the guard: no other stage runs, no scratch file is its own,
\* no document of it is indexed, and the message history holds neither the
\* call nor a dict or list made for it.
DroppedCallChangesNothing ==
  \A c \in CallIds :
    (verdict[c] # "none" /\ Rec(c).short_name \notin SystemNames) =>
      /\ ended[c] = "return"
      /\ trace[c] = << <<"guard", 0>> >>
      /\ \A f \in DOMAIN scratch : scratch[f] # c
      /\ \A d \in indexed : d[2] # c
      /\ Rec(c).short_name \notin DOMAIN message_history
      /\ \A x \in DOMAIN dicts : x[2] # c
      /\ \A x \in DOMAIN lists : x[2] # c /\ c \notin Range(lists[x])

\* C7, the case: a call of an unknown system has been dropped, and a call
\* after it has been accepted.
DroppedCallCase ==
  \E c, d \in CallIds :
    /\ Rec(c).short_name = "sysX"
    /\ ended[c] = "return"
    /\ c < d
    /\ verdict[d] = "passed"
    /\ ended[d] = "return"

\* C8: a call detected as a duplicate ran the guard and the duplicate check
\* and nothing else: no scratch file is its own, no enrichment slot is set,
\* no transmissions document is indexed; when it has returned, its document
\* is in the duplicates index exactly when there is an index client.
DuplicateStopsAtCheck ==
  \A c \in CallIds :
    verdict[c] = "duplicate" =>
      /\ trace[c] = << <<"guard", 0>>, <<"duplicate_check", 0>> >>
      /\ \A f \in DOMAIN scratch : scratch[f] # c
      /\ call_data[c] = CallData0
      /\ <<"icad-transmissions", c>> \notin indexed
      /\ ended[c] # "no" =>
           /\ ended[c] = "return"
           /\ <<"icad-duplicates", c>> \in indexed <=> es

\* C8, the case: a duplicate has returned and its document is indexed.
DuplicateIndexedCase ==
  \E c \in CallIds :
    /\ verdict[c] = "duplicate"
    /\ ended[c] = "return"
    /\ <<"icad-duplicates", c>> \in indexed

StageOrder ==
  <<"guard", "duplicate_check", "persist", "transcode", "legacy", "tone_detect",
    "transcribe", "play_length", "json_rewrite", "archive", "index", "openmhz",
    "broadcastify_calls", "icad_player", "rdio", "trunk_player", "cloud_detect",
    "alerting", "webhook", "cleanup">>

StageRanks ==
  [stage \in Range(StageOrder) |-> CHOOSE i \in DOMAIN StageOrder : StageOrder[i] = stage]

StageRank(stage) == StageRanks[stage]

\* C9: the stages of one run of the pipeline occur in the mandatory order;
\* the requests of one stage go by the order of its entries.  Each stage
\* that ran comes later in the order than the stage that ran before it.
StagesInOrder ==
  \A c \in CallIds :
    \A i \in 1..(Len(trace[c]) - 1) :
      \/ StageRank(trace[c][i][1]) < StageRank(trace[c][i + 1][1])
      \/ /\ trace[c][i][1] = trace[c][i + 1][1]
         /\ trace[c][i][2] < trace[c][i + 1][2]

\* C9, the case: a run in which every stage occurred.
EveryStageRan ==
  \E c \in CallIds : ended[c] = "return" /\ StagesOf(c) = Range(StageOrder)

\* The requests to sinks that are due for call c: the sink is enabled and
\* its prerequisites hold.
DueSinks(c) ==
  LET cfg == systems[Rec(c).short_name]
      tg == Rec(c).talkgroup
      m4a == cfg.audio_compression.m4a_audio_compression.enabled /\ Rec(c).env.m4a
  IN  {<<"openmhz", 0>> : x \in {1} \cap {cfg.openmhz.enabled} \cap {IF m4a THEN 1 ELSE 0}}
      \cup {<<"broadcastify_calls", 0>> :
              x \in {1} \cap {cfg.broadcastify_calls.enabled} \cap {IF m4a THEN 1 ELSE 0}}
      \cup {<<"icad_player", 0>> :
              x \in {y \in {cfg.icad_player.enabled} :
                       /\ y = 1
                       /\ call_data[c].audio_m4a_url # ""
                       /\ talkgroup_is_allowed(tg, cfg.icad_player.allowed_talkgroups)}}
      \cup {<<"rdio", j>> : j \in {k \in DOMAIN cfg.rdio_systems :
                                     cfg.rdio_systems[k].enabled = 1 /\ m4a}}
      \cup {<<"trunk_player", j>> : j \in {k \in DOMAIN cfg.trunk_player_systems :
                                             cfg.trunk_player_systems[k].enabled = 1 /\ m4a}}
      \cup {<<"cloud_detect", j>> :
              j \in {k \in DOMAIN cfg.icad_cloud_detect :
                       /\ cfg.icad_cloud_detect[k].enabled = 1
                       /\ tg \in cfg.icad_cloud_detect[k].allowed_talkgroups.tgs}}
      \cup {<<"alerting", 0>> :
              x \in {y \in {cfg.icad_alerting.enabled} :
                       /\ y = 1
                       /\ talkgroup_is_allowed(tg, cfg.icad_alerting.allowed_talkgroups)}}
      \cup {<<"webhook", j>> :
              j \in {k \in DOMAIN cfg.webhooks :
                       /\ cfg.webhooks[k].enabled = 1
                       /\ talkgroup_is_allowed(tg, cfg.webhooks[k].allowed_talkgroups)}}

\* C10: a run that has reached the fan-out requests every sink that is due,
\* whatever the sinks before it answered, and runs the scratch cleanup.
SinkFailureDoesNotAbort ==
  \A c \in CallIds :
    (ended[c] # "no" /\ "json_rewrite" \in StagesOf(c)) =>
      /\ DueSinks(c) \subseteq Range(trace[c])
      /\ <<"cleanup", 0>> \in Range(trace[c])

\* The stages after the transcode that archive, index or dispatch a call.
DeliveryStages ==
  {"archive", "index", "openmhz", "broadcastify_calls", "icad_player", "rdio",
   "trunk_player", "cloud_detect", "alerting", "webhook"}

\* The transcode of call c was attempted and made no M4A.
TranscodeFailed(c) ==
  /\ <<"transcode", 0>> \in Range(trace[c])
  /\ ~Rec(c).env.m4a

\* C11: a call whose transcode to M4A was attempted and failed returns
\* early: no archive, index or sink stage runs for it.
TranscodeFailureIsFatal ==
  \A c \in CallIds :
    TranscodeFailed(c) => StagesOf(c) \cap DeliveryStages = {}

\* The scratch write of call c was attempted and failed.
TempWriteFailed(c) ==
  /\ <<"persist", 0>> \in Range(trace[c])
  /\ Rec(c).env.temp # "ok"

\* C12: a call whose scratch WAV or JSON could not be written has returned
\* from the write: the write is the last stage of its run, so no transcode,
\* tone detection, transcription, archive, index or sink stage runs, and no
\* document of it is indexed.
TempWriteFailureStops ==
  \A c \in CallIds :
    TempWriteFailed(c) =>
      /\ ended[c] = "return"
      /\ trace[c][Len(trace[c])] = <<"persist", 0>>
      /\ StagesOf(c) \subseteq {"guard", "duplicate_check", "persist"}
      /\ \A d \in indexed : d[2] # c
      /\ call_data[c].play_length = "unset"

\* C12, the case: the WAV was written and the JSON was not, and the run has
\* returned; and a run in which the WAV could not be written has returned.
TempWriteFailureCase ==
  \E c \in CallIds :
    /\ TempWriteFailed(c)
    /\ ended[c] = "return"
    /\ Rec(c).env.temp = "json_fail"
    /\ FileThere(Rec(c).filename, "wav")

\* The scratch files that call c wrote.
ScratchOf(c) == {f \in DOMAIN scratch : scratch[f] = c}

\* C13: once a run of the pipeline has returned, by its last statement, by
\* an early return or by an exception, none of the scratch files it created
\* exists.
ScratchRemovedAtEnd ==
  \A c \in CallIds : ended[c] # "no" => ScratchOf(c) = {}

\* The transcode of call c made an M4A: it is enabled for the system and the
\* encoder succeeded.
M4aMade(c) ==
  /\ systems[Rec(c).short_name].audio_compression.m4a_audio_compression.enabled
  /\ Rec(c).env.m4a

\* The run of call c has come past the transcode.
PastTranscode(c) == "play_length" \in StagesOf(c)

M4aSinks == {"openmhz", "broadcastify_calls", "trunk_player"}

\* The first half of C14: no request goes to OpenMHZ, Broadcastify Calls or
\* Trunk Player in a run that has no M4A.
NoM4aNoM4aSink ==
  \A c \in CallIds :
    (PastTranscode(c) /\ ~M4aMade(c)) => StagesOf(c) \cap M4aSinks = {}

\* C14: in a run that has no M4A (transcode disabled or failed), no request
\* goes to OpenMHZ, Broadcastify Calls or Trunk Player, and the run goes to
\* its end: every other sink that is due is requested and the scratch
\* cleanup runs.
NoM4aRunCompletes ==
  \A c \in CallIds :
    (PastTranscode(c) /\ ~M4aMade(c)) =>
      /\ StagesOf(c) \cap M4aSinks = {}
      /\ ended[c] # "no" =>
           /\ ended[c] = "return"
           /\ DueSinks(c) \subseteq Range(trace[c])
           /\ <<"cleanup", 0>> \in Range(trace[c])

\* The extensions the archive backend returned a URL for: those it accepts,
\* of the files that were in the scratch directory.
Returned(c) ==
  Rec(c).env.arch \cap ({"wav", "json"} \cup (IF M4aMade(c) THEN {"m4a"} ELSE {}))

\* The archive stage of call c has run.
Archived(c) == <<"archive", 0>> \in Range(trace[c])

\* The first half of C15: the URL fields stay unset and iCAD Player is not
\* requested when the archive returned no URL.
NoUrlNoPlayer ==
  \A c \in CallIds :
    (Archived(c) /\ Returned(c) = {}) =>
      /\ call_data[c].audio_url = ""
      /\ call_data[c].audio_m4a_url = ""
      /\ call_data[c].audio_wav_url = ""
      /\ <<"icad_player", 0>> \notin Range(trace[c])

\* C15: when the archive is enabled and the backend returned no URL for any
\* extension, the CallRecord has no audio_url, audio_m4a_url or
\* audio_wav_url after the archive stage, iCAD Player is not requested, and
\* every other sink that is due is requested.
NoUrlRunCompletes ==
  \A c \in CallIds :
    (Archived(c) /\ Returned(c) = {}) =>
      /\ call_data[c].audio_url = ""
      /\ call_data[c].audio_m4a_url = ""
      /\ call_data[c].audio_wav_url = ""
      /\ <<"icad_player", 0>> \notin Range(trace[c])
      /\ ended[c] # "no" => DueSinks(c) \subseteq Range(trace[c])

\* C16: after the archive stage, audio_m4a_url is set exactly when an M4A
\* URL was returned, audio_wav_url exactly when a WAV URL was returned, and
\* audio_url is the M4A URL when one was returned, the WAV URL when only
\* that was returned, and unset when neither was.
ArchiveUrlPrecedence ==
  \A c \in CallIds :
    Archived(c) =>
      /\ call_data[c].audio_m4a_url = (IF "m4a" \in Returned(c) THEN "m4a" ELSE "")
      /\ call_data[c].audio_wav_url = (IF "wav" \in Returned(c) THEN "wav" ELSE "")
      /\ call_data[c].audio_url =
           (IF "m4a" \in Returned(c) THEN "m4a"
            ELSE IF "wav" \in Returned(c) THEN "wav" ELSE "")

\* C16, the case: both URLs were returned, and audio_url is the M4A URL.
ArchiveBothUrlsCase ==
  \E c \in CallIds :
    /\ Archived(c)
    /\ {"wav", "m4a"} \subseteq Returned(c)
    /\ call_data[c].audio_url = "m4a"
    /\ call_data[c].audio_wav_url = "wav"

\* The gate of the specification: the entry is enabled, and its list holds
\* "*" or the talkgroup.
Admits(entry, tg) ==
  /\ entry.enabled = 1
  /\ entry.allowed_talkgroups.star \/ tg \in entry.allowed_talkgroups.tgs

\* C17: in a run that went through to the cleanup, each talkgroup-gated
\* stage or sink (tone detection, transcribe, iCAD Player, each Cloud Detect
\* entry, Alerting, each webhook) was requested exactly when it is enabled
\* and its allowed_talkgroups holds "*" or the call's talkgroup (for iCAD
\* Player: and the call has an M4A URL); an empty list admits no call.
TalkgroupGates ==
  \A c \in CallIds :
    <<"cleanup", 0>> \in Range(trace[c]) =>
      LET cfg == systems[Rec(c).short_name]
          tg == Rec(c).talkgroup
          ran == Range(trace[c])
      IN  /\ <<"tone_detect", 0>> \in ran <=> Admits(cfg.tone_detection, tg)
          /\ <<"transcribe", 0>> \in ran <=> Admits(cfg.transcribe, tg)
          /\ <<"icad_player", 0>> \in ran <=>
                (Admits(cfg.icad_player, tg) /\ call_data[c].audio_m4a_url # "")
          /\ \A j \in DOMAIN cfg.icad_cloud_detect :
                <<"cloud_detect", j>> \in ran <=> Admits(cfg.icad_cloud_detect[j], tg)
          /\ <<"alerting", 0>> \in ran <=> Admits(cfg.icad_alerting, tg)
          /\ \A j \in DOMAIN cfg.webhooks :
                <<"webhook", j>> \in ran <=> Admits(cfg.webhooks[j], tg)

\* C17 without the Cloud Detect entries: the other gates are the gate of
\* the specification.
TalkgroupGatesButCloudDetect ==
  \A c \in CallIds :
    <<"cleanup", 0>> \in Range(trace[c]) =>
      LET cfg == systems[Rec(c).short_name]
          tg == Rec(c).talkgroup
          ran == Range(trace[c])
      IN  /\ <<"tone_detect", 0>> \in ran <=> Admits(cfg.tone_detection, tg)
          /\ <<"transcribe", 0>> \in ran <=> Admits(cfg.transcribe, tg)
          /\ <<"icad_player", 0>> \in ran <=>
                (Admits(cfg.icad_player, tg) /\ call_data[c].audio_m4a_url # "")
          /\ <<"alerting", 0>> \in ran <=> Admits(cfg.icad_alerting, tg)
          /\ \A j \in DOMAIN cfg.webhooks :
                <<"webhook", j>> \in ran <=> Admits(cfg.webhooks[j], tg)

\* Transcription is enabled for the system of call c and its allow-list
\* does not admit the talkgroup of c.
TranscribeGatedOff(c) ==
  LET cfg == systems[Rec(c).short_name].transcribe
  IN  /\ cfg.enabled = 1
      /\ ~cfg.allowed_talkgroups.star
      /\ Rec(c).talkgroup \notin cfg.allowed_talkgroups.tgs

\* The first half of C18: no upload goes to the transcription endpoint for
\* a call the allow-list does not admit.
GatedOffNotTranscribed ==
  \A c \in CallIds :
    (PastTranscode(c) /\ TranscribeGatedOff(c)) => <<"transcribe", 0>> \notin Range(trace[c])

\* C18: when transcription is enabled and the allow-list does not admit the
\* call's talkgroup, no upload is made to the transcription endpoint and
\* the transcript slot of the record that is indexed and dispatched holds
\* the stub "No Transcribe configured".
GatedOffTranscriptIsStub ==
  \A c \in CallIds :
    (PastTranscode(c) /\ TranscribeGatedOff(c)) =>
      /\ <<"transcribe", 0>> \notin Range(trace[c])
      /\ call_data[c].transcript = "No Transcribe configured"

\* The documents in the index store that were built from message c.
DocumentsOf(c) == {d \in indexed : d[2] = c}

\* C19: a message whose instance_id is the sentinel "trunk-recorder" is
\* rejected whatever its topic: the call pipeline does not run for it and
\* no document of it is written to the index client.
SentinelRejected ==
  \A c \in CallIds :
    (routed[c] # "none" /\ feed[c].instance_id = "trunk-recorder") =>
      /\ routed[c] = "rejected"
      /\ trace[c] = <<>>
      /\ verdict[c] = "none"
      /\ ended[c] = "no"
      /\ DocumentsOf(c) = {}
      /\ ScratchOf(c) = {}
      /\ \A w \in Workers : task[w] = c => pc[w] = "done"

\* The topic of message c below the producer's base.
Below(c) == SubSeq(feed[c].topic, Len(TopicBase) + 1, Len(feed[c].topic))

\* C19, the case: a message of the sentinel instance on a statistics topic
\* was rejected while statistics were enabled and an index client present.
SentinelRejectedCase ==
  \E c \in CallIds :
    /\ routed[c] = "rejected"
    /\ Below(c) = <<"feeds", "recorders">>
    /\ mqtt.stats_enable
    /\ es

StatsSuffixes ==
  {<<"feeds", "rates">>, <<"feeds", "recorders">>, <<"status", "calls_active">>,
   <<"feeds", "call_end">>, <<"units", "call">>, <<"units", "end">>}

\* Message c has been routed and is not of the sentinel instance.
Routed(c) == routed[c] # "none" /\ feed[c].instance_id # "trunk-recorder"

\* C20 for a subscription to every topic below the base, and without the
\* documents of all the statistics topics: a feeds/audio
\* message goes to the call pipeline whatever the statistics setting; with
\* statistics disabled no statistics message produces a document; a message
\* with any other suffix is dropped; and with statistics enabled and an
\* index client, a feeds/recorders message and a feeds/rates message that
\* lists a system produce a document.
RoutingButDocuments ==
  \A c \in CallIds :
    (Routed(c) /\ mqtt.topic = TopicBase \o <<"#">>) =>
      LET suffix == Below(c)
      IN  /\ suffix = <<"feeds", "audio">> <=> routed[c] = "pipeline"
          /\ suffix # <<"feeds", "audio">> =>
                trace[c] = <<>> /\ ScratchOf(c) = {} /\ verdict[c] = "none"
          /\ (suffix \in StatsSuffixes /\ ~mqtt.stats_enable) => DocumentsOf(c) = {}
          /\ suffix \notin StatsSuffixes \cup {<<"feeds", "audio">>} => DocumentsOf(c) = {}
          /\ (suffix = <<"feeds", "recorders">> /\ mqtt.stats_enable /\ es) =>
                DocumentsOf(c) # {}
          /\ (suffix = <<"feeds", "rates">> /\ feed[c].rates > 0 /\ mqtt.stats_enable /\ es) =>
                DocumentsOf(c) # {}

\* C20: a feeds/audio message goes to the call pipeline whatever the
\* statistics setting; with statistics enabled and an index client, each
\* message on feeds/rates, feeds/recorders, status/calls_active,
\* feeds/call_end, units/call and units/end has a document in the index
\* store (for feeds/rates: a message that lists a system); with statistics
\* disabled no statistics message has one; a message with any other suffix
\* is dropped without side effects.
TopicRouting ==
  \A c \in CallIds :
    Routed(c) =>
      LET suffix == Below(c)
      IN  /\ suffix = <<"feeds", "audio">> <=> routed[c] = "pipeline"
          /\ suffix # <<"feeds", "audio">> =>
                trace[c] = <<>> /\ ScratchOf(c) = {} /\ verdict[c] = "none"
          /\ (/\ suffix \in StatsSuffixes
              /\ (suffix = <<"feeds", "rates">> => feed[c].rates > 0)
              /\ mqtt.stats_enable
              /\ es) => DocumentsOf(c) # {}
          /\ (suffix \in StatsSuffixes /\ ~mqtt.stats_enable) => DocumentsOf(c) = {}
          /\ suffix \notin StatsSuffixes \cup {<<"feeds", "audio">>} => DocumentsOf(c) = {}


\* ---- the life cycle: C21..C25

\* The process has ended.
Exited == main \in {"exit_0", "exit_1"}

\* Once the broker connection is lost, the error flag is set, and when the
\* disconnect callback has returned every submitted task has finished.
BrokerLossFlagsAndDrains ==
  connection = "lost" =>
    /\ error_flag
    /\ loop_thread = "stopped" => (Drained /\ pending_tasks = 0 /\ \A c \in 1..cursor : routed[c] # "none")

BrokerLossDrained ==
  connection = "lost" /\ loop_thread = "stopped" /\ cursor >= 2 /\ main = "sleep"

\* C21: after the broker connection is lost (on_disconnect has fired), the
\* process eventually exits, with a nonzero exit code.
BrokerLossExitsNonzero == (connection = "lost") ~> (main = "exit_1")

\* After the broker connection is lost the process eventually exits, with
\* whatever code.
BrokerLossExits == (connection = "lost") ~> Exited


\* Every message handed to on_message has been run by a worker, and the
\* pool has nothing left.
AllSubmittedDone ==
  /\ Drained
  /\ pending_tasks = 0
  /\ \A c \in 1..cursor : routed[c] # "none"

\* C22: once disconnect() has begun (the executor is shut down), every task
\* submitted before, running or queued, runs to completion, and no further
\* message is taken in.
CancellationDrains ==
  /\ shutdown ~> AllSubmittedDone
  /\ [][shutdown => cursor' = cursor]_vars

\* disconnect() has begun while one task runs and another is queued.
CancellationWithQueuedWork == shutdown /\ queue # <<>> /\ running_tasks > 0


\* The workers that are running a task.
Busy == {w \in Workers : pc[w] # "idle"}

\* The counters of the pool agree with the pool: running is the number of
\* busy workers, at most the pool size and at most pending; pending is the
\* number of tasks queued or running; waiting (pending - running) is the
\* number of queued tasks; with nothing queued or running both are 0.
PoolMetricsConsistent ==
  /\ 0 <= running_tasks
  /\ running_tasks <= pending_tasks
  /\ running_tasks <= max_workers
  /\ running_tasks = Cardinality(Busy)
  /\ pending_tasks = Len(queue) + Cardinality(Busy)
  /\ pending_tasks - running_tasks = Len(queue)
  /\ Drained => (pending_tasks = 0 /\ running_tasks = 0)

\* C23: the queue-depth metrics are consistent in every reachable state,
\* and on_message has reported pending, running and waiting for every
\* message it has taken in.
QueueDepthReported ==
  /\ PoolMetricsConsistent
  /\ Len(reports) = cursor
  /\ \A i \in 1..Len(reports) : reports[i][3] = reports[i][1] - reports[i][2]


\* C24: the network loop thread never waits, inside a broker callback, for
\* a task of the pool to start or to complete.
CallbacksNeverWait == loop_thread = "waiting" => Drained

\* C25: when the broker answers the subscription with a failure reason
\* code, or refuses the connection with a nonzero reason code, the error
\* flag is set.
SubscribeFailureIsFatal ==
  /\ subscription = "failed" => error_flag
  /\ connection = "refused" => error_flag

\* The failed subscription alone leaves the error flag unset.
FailedSubscriptionFlagged == subscription = "failed" => error_flag


\* ---- functions taken alone: C26..C30

\* The upload succeeded and clean_files(archive_path, 0) has run.
UploadedAndCleaned ==
  /\ fn_in.phase = "cleaned"
  /\ fn_out.value
  /\ fn_in.archive_days = 0

\* C26: for every store, after a successful upload_file, clean_files with
\* zero days on an archive path that holds the destination removes the file
\* just uploaded.
CleanRemovesUploaded ==
  UploadedAndCleaned => fn_in.store[DestinationFile] = Absent

\* The same for the stores other than the SCP store.
CleanRemovesUploadedButScp ==
  (UploadedAndCleaned /\ fn_in.backend # "scp") => fn_in.store[DestinationFile] = Absent

CleanRemovesUploadedCase ==
  /\ UploadedAndCleaned
  /\ fn_in.backend = "aws_s3"
  /\ fn_in.now = TicksPerDay + 2
  /\ fn_in.store[DestinationFile] = Absent


\* The string holds no token: no "{" with a "}" after it.
NoTokens(string) ==
  ~\E i, j \in 1..Len(string) : i < j /\ string[i] = "{" /\ string[j] = "}"

RenderedTwice == fn_out.done /\ Len(fn_out.value) = 2

PlainTokens == {Token(<<"a">>), Token(<<"a", ".", "b">>), Token(<<"c">>)}

PlainTemplate ==
  \A i \in 1..Len(fn_in.segments) : fn_in.segments[i] \in {<<"x">>} \cup PlainTokens

\* A key of the path is missing.
KeyMissing(segment) ==
  \/ segment = Token(<<"c">>)
  \/ segment = Token(<<"a">>) /\ fn_in.data.a = "missing"
  \/ segment = Token(<<"a", ".", "b">>) /\ fn_in.data.a = "missing"
  \/ segment = Token(<<"a", ".", "b">>) /\ fn_in.data.a = "dict" /\ fn_in.data.b = "missing"

\* The path goes through a value that is not a mapping.
ThroughNoMapping(segment) ==
  segment = Token(<<"a", ".", "b">>) /\ fn_in.data.a \in {"str", "empty", "int", "none"}

\* What a segment is to render as: text as it is, an unresolved path as
\* the empty string, a resolved one as its value.
Rendering(segment) ==
  IF segment = <<"x">> THEN <<"x">>
  ELSE IF KeyMissing(segment) \/ ThroughNoMapping(segment) THEN <<>>
  ELSE IF segment = Token(<<"a">>)
  THEN (CASE fn_in.data.a = "str" -> <<"v">>
          [] fn_in.data.a = "int" -> <<"7">>
          [] fn_in.data.a = "none" -> <<"None">>
          [] OTHER -> <<>>)
  ELSE IF fn_in.data.b = "str" THEN <<"v">> ELSE <<>>

RenderedAsExpected ==
  /\ fn_out.value[1].form # "none"
  /\ fn_out.value[1].s = Flatten([i \in 1..Len(fn_in.segments) |-> Rendering(fn_in.segments[i])])

\* The case of C28: a template of text and plain tokens, none of which
\* resolves to a dict, has been rendered.
PlainRendered ==
  /\ fn_out.done
  /\ PlainTemplate
  /\ \A i \in 1..Len(fn_in.segments) :
        fn_in.segments[i] = Token(<<"a">>) => fn_in.data.a # "dict"

\* C28: a token whose path cannot be resolved, for a missing key at any
\* level or for going through a value that is not a mapping, renders as the
\* empty string, and the rest of the template is rendered and returned.
UnresolvedRendersEmpty ==
  (/\ PlainRendered
   /\ \E i \in 1..Len(fn_in.segments) :
         KeyMissing(fn_in.segments[i]) \/ ThroughNoMapping(fn_in.segments[i]))
  => RenderedAsExpected

\* The same where a is the empty string or every path stops at a missing key.
MissingKeyRendersEmpty ==
  (/\ PlainRendered
   /\ \E i \in 1..Len(fn_in.segments) : KeyMissing(fn_in.segments[i])
   /\ \A i \in 1..Len(fn_in.segments) :
         ThroughNoMapping(fn_in.segments[i]) => fn_in.data.a = "empty")
  => RenderedAsExpected

MissingKeyRendersEmptyCase ==
  /\ fn_out.done
  /\ fn_in.segments = <<Token(<<"a", ".", "b">>), <<"x">>, Token(<<"a">>)>>
  /\ fn_in.data.a = "dict"
  /\ fn_in.data.b = "missing"


\* The call length the sink reads: 0 for a call without one.
CallLength == IF fn_in.has_call_length THEN fn_in.call_length ELSE 0

\* The configured delay, a negative one counting as 0.
ConfiguredDelay ==
  IF fn_in.delete_after_seconds < 0 THEN 0 ELSE fn_in.delete_after_seconds

RECURSIVE SumOfLen(_)
SumOfLen(freqList) ==
  IF freqList = <<>> THEN 0
  ELSE SumOfLen(SubSeq(freqList, 1, Len(freqList) - 1)) + freqList[Len(freqList)].len

\* The call goes on to the index and the sinks.
GoesOn == fn_out.done /\ ~fn_out.value.raised

\* C30: for a call that goes on to the index and the sinks, play_length is
\* the sum of len over the entries of freqList, 0 for an empty or absent
\* list, whatever play_length the metadata came with.
PlayLengthIsSum ==
  GoesOn =>
    /\ fn_in.has_play_length
    /\ fn_in.play_length = IF fn_in.has_freqList THEN SumOfLen(fn_in.freqList) ELSE 0

\* Three entries of 2, 1 and 2 seconds: 5, in the place of whatever the
\* metadata came with.
PlayLengthIsSumCase ==
  /\ GoesOn
  /\ fn_in.has_freqList
  /\ Len(fn_in.freqList) = MaxFreqs
  /\ fn_in.freqList[1].len = 2
  /\ fn_in.freqList[2].len = 1
  /\ fn_in.freqList[3].len = 2
  /\ fn_in.play_length = 5


\* ---- C31..C40

\* Once a client is constructed the four indices the client knows exist,
\* constructing another client changes nothing, and index_document sends
\* a document of each of the four.
FourIndicesIdempotent ==
  /\ [](fn_in.clients >= 1 => (IndexTypes \ {"icad-units"}) \subseteq fn_in.indices)
  /\ [](fn_out.done /\ fn_out.value.index_type # "icad-units" => fn_out.value.sent)
  /\ [][fn_in.clients >= 1 => fn_in.indices' = fn_in.indices]_vars

\* C31: once a client is constructed the five indices (transmissions,
\* rates, recorders, duplicates, units) exist, constructing a second client
\* changes nothing, and index_document accepts each of the five names.
FiveIndicesIdempotent ==
  /\ [](fn_in.clients >= 1 => IndexTypes \subseteq fn_in.indices)
  /\ [](fn_out.done => fn_out.value.sent)
  /\ [][fn_in.clients >= 1 => fn_in.indices' = fn_in.indices]_vars


\* The attempts before this one all failed.
FailedBefore(attempt) == \A k \in 1..(attempt - 1) : fn_in.outcomes[k] # "ok"

\* C32: SCPStorage.upload_file ends after at most 3 attempts: it returns
\* the URL at the first attempt that succeeds, sleeps 5 seconds between
\* failed attempts and not after the last, and returns the failure value
\* after the third failed attempt.
ScpUploadBounded ==
  /\ <>(fn_in.phase = "returned")
  /\ [](fn_in.attempt <= 3)
  /\ [](fn_in.phase = "returned" /\ fn_in.source =>
          /\ FailedBefore(fn_in.attempt)
          /\ fn_in.slept = 5 * (fn_in.attempt - 1)
          /\ fn_out.value = "url" <=> fn_in.outcomes[fn_in.attempt] = "ok"
          /\ fn_out.value = "False" => fn_in.attempt = 3)

\* Three failed attempts: False after 10 seconds of sleep.
ScpUploadBoundedCase ==
  /\ fn_in.phase = "returned"
  /\ fn_in.source
  /\ fn_out.value = "False"
  /\ fn_in.attempt = 3
  /\ fn_in.slept = 10


\* The calls on the store that are sweeps, and the requested extensions
\* whose scratch file exists.
Sweeps == {i \in 1..Len(fn_out.value.log) : fn_out.value.log[i][1] = "clean_files"}

Uploadable ==
  {fn_in.archive_extensions[k] : k \in 1..Len(fn_in.archive_extensions)} \cap fn_in.files

Attempted ==
  {fn_out.value.log[i][2] : i \in {j \in 1..Len(fn_out.value.log) :
                                     fn_out.value.log[j][1] = "upload_file"}}

\* The call was archived: the stage went through its uploads and returned.
Archiving ==
  /\ fn_out.done
  /\ ~fn_out.value.raised
  /\ fn_in.archive_path \/ fn_in.archive_type \in {"google_cloud", "aws_s3"}

StageRan ==
  /\ fn_out.done
  /\ fn_in.archive_path \/ fn_in.archive_type \in {"google_cloud", "aws_s3"}

\* C34: the upload of every requested extension whose scratch file exists
\* is attempted, whether an earlier upload failed or not, and the URLs of
\* those that did upload are returned.
UploadsIndependent ==
  StageRan =>
    /\ Attempted = Uploadable
    /\ fn_out.value.urls = {x \in Uploadable : fn_in.answers[x] = "url"}

\* The same for the failures the store answers with a failure value.
AnsweredFailuresIndependent ==
  (StageRan /\ \A x \in Uploadable : fn_in.answers[x] # "raises") =>
    /\ Attempted = Uploadable
    /\ fn_out.value.urls = {x \in Uploadable : fn_in.answers[x] = "url"}


TwoPass == fn_in.normalization /\ fn_in.use_loudnorm

Measured == fn_in.pass1 = "ok" /\ fn_in.stderr = "json"

\* What the two modes have in common: the runs of a call that returned
\* True, the second run only after a measuring run that exited with 0 and
\* wrote its JSON block, and no True in a failing case.
EncoderRuns ==
  fn_out.done =>
    /\ fn_out.value = "True" =>
         fn_in.log = IF TwoPass THEN <<<<"measure", 0>>, <<"encode", fn_in.input_i>>>>
                     ELSE <<<<"single", 0>>>>
    /\ \A i \in 1..Len(fn_in.log) :
         fn_in.log[i][1] = "encode" =>
           i = 2 /\ fn_in.log[1][1] = "measure" /\ Measured /\ fn_in.log[i][2] = fn_in.input_i
    /\ fn_out.value = "True" <=>
         /\ fn_in.wav /\ fn_in.ffmpeg
         /\ IF TwoPass THEN Measured /\ fn_in.pass2 = "ok" ELSE fn_in.single = "ok"

FirstFailed == ended[1] = "raise" \/ (ended[1] = "return" /\ Rec(1).env.temp # "ok")

\* What a passed call comes to when it is processed alone: it returns after
\* the cleanup, and it has an M4A URL, and the sink that needs one is
\* requested, exactly when its own transcode made an M4A.
OwnOutcome(c) ==
  /\ ended[c] = "return"
  /\ <<"cleanup", 0>> \in Range(trace[c])
  /\ call_data[c].audio_m4a_url # "" <=> Rec(c).env.m4a
  /\ <<"icad_player", 0>> \in Range(trace[c]) <=> Rec(c).env.m4a

\* Every message is processed, the workers are idle again and the counters
\* are back at 0, whether a message failed or not.
FailureReleasesWorker ==
  <>[](/\ cursor = Len(feed)
       /\ Drained
       /\ pending_tasks = 0
       /\ running_tasks = 0
       /\ \A c \in CallIds : ended[c] # "no")

\* The second message, processed after the first by the one worker of the
\* pool, comes to what it would come to alone.
SecondUnchanged ==
  (max_workers = 1 /\ ended[2] # "no") =>
    /\ verdict[2] = IF Rec(2).instance_id # Rec(1).instance_id THEN "duplicate" ELSE "passed"
    /\ verdict[2] = "passed" => OwnOutcome(2)

\* C36: when the processing of a message fails or raises, the worker is
\* released, the counters are decremented, and every other message is
\* processed to completion with the outcome it would have had otherwise.
FailureLeavesOthersAlone ==
  /\ FailureReleasesWorker
  /\ []SecondUnchanged

\* The same for a second message that does not carry the filename of the
\* first, and for one that does after a first message that did not fail.
FailureLeavesOtherFilesAlone ==
  /\ FailureReleasesWorker
  /\ []((Rec(2).filename # Rec(1).filename \/ ~FirstFailed) => SecondUnchanged)


\* The calls of this feed that a window of the history holds.
InWindows ==
  {c \in CallIds : \E x \in DOMAIN lists : c \in Range(lists[x])}

\* Worker w takes a step of the run of a call rejected as a duplicate.
RejectedStep(w) ==
  /\ task[w] # 0
  /\ verdict'[task[w]] = "duplicate"
  /\ pc'[w] # pc[w]

\* C37: the run of a call rejected as a duplicate leaves the message
\* history as it is: the call is appended to no window, so the windows
\* later calls are compared against hold accepted calls only.
RejectedLeavesHistory ==
  /\ [](\A c \in InWindows : verdict[c] = "passed")
  /\ [](\A c \in CallIds :
          verdict[c] = "duplicate" =>
            \A sn \in SystemNames, tg \in Talkgroups : c \notin Range(appended[sn][tg]))
  /\ [][\A w \in Workers :
          RejectedStep(w) => UNCHANGED <<message_history, dicts, lists, appended>>]_vars

\* A call was rejected, and a later call that the thresholds make a
\* duplicate of the rejected one was compared with the windows and passed.
RejectedLeavesHistoryCase ==
  \E c, d \in CallIds :
    /\ c < d
    /\ verdict[c] = "duplicate" /\ ended[c] # "no"
    /\ SameKey(c, d) /\ DuplicatesOn(c, d)
    /\ verdict[d] = "passed" /\ ended[d] # "no"
    /\ InWindows = CallIds \ {c}


\* The tasks the executor accepted that have not finished: queued or running.
AcceptedUnfinished == Len(queue) + Cardinality(Busy)

\* C38: after any sequence of submits and completions, submits rejected
\* after shutdown included, the pending counter is the number of tasks
\* accepted and not yet finished.
PendingCountsAccepted == pending_tasks = AcceptedUnfinished

\* The same while every submit was accepted.
PendingCountsAcceptedBeforeShutdown ==
  (\/ ~shutdown
   \/ \A c \in 1..cursor : routed[c] # "none" \/ c \in Range(queue)) =>
    /\ pending_tasks = AcceptedUnfinished
    /\ running_tasks = Cardinality(Busy)


\* C39: the rendering ends for every template and every data mapping, a
\* mapping whose value holds the token of its own field included.
RenderingEnds == <>fn_out.done

\* No value of the mapping holds a brace.
PlainValues == \A k \in DOMAIN fn_in.data : "{" \notin Range(fn_in.data[k])

\* The rendering ends when no value of the mapping holds a brace.
RenderingEndsOnPlainValues == PlainValues => <>fn_out.done


\* Call c has its transcode, its archive or its sinks still to run.
StagesToRun(c) == fn_in.at[c] \in {"transcode", "json_rewrite", "archive", "sinks"}

\* The scratch files call c has written so far are there and are its own.
OwnScratch(c) ==
  /\ fn_in.files[<<fn_in.filename[c], "wav">>] = c
  /\ fn_in.files[<<fn_in.filename[c], "json">>] = c
  /\ (fn_in.at[c] \in {"json_rewrite", "archive", "sinks"} /\ fn_in.m4a[c]) =>
       fn_in.files[<<fn_in.filename[c], "m4a">>] = c

\* C40: of two calls processed at once by two workers, two calls of the
\* same filename included, neither's scratch write or cleanup overwrites or
\* deletes a scratch file of the other while the other has its transcode,
\* archive or sink stages to run.
ScratchNotShared == \A c \in TwoCalls : StagesToRun(c) => OwnScratch(c)

\* The same for two calls of different filenames.
ScratchOfOtherNamesKept ==
  fn_in.filename[1] # fn_in.filename[2] => ScratchNotShared

====
